---- MODULE Spec2Model ----
(***************************************************************************)
(* Crawnfall simulation core: the ECS World and the Movement, Shard,       *)
(* Combat, AI and Crown systems, stepped in registration order by          *)
(* World.update and followed by the deferred-destruction flush.            *)
(*                                                                         *)
(* Geometry.  The arena is modelled along one axis: every entity sits on   *)
(* the line y = 0 at an integer world coordinate x, and a facing angle is  *)
(* either 0 (towards +x) or PI (towards -x), written 0 and 1.  Ranges of   *)
(* GameConfig.ts are kept in tenths of a world unit and compared with      *)
(* DistScale * distance.  One step of a moving entity is one cell.         *)
(*                                                                         *)
(* Numbers.  Health is counted in units of 0.1 HP, half a regeneration     *)
(* step: the sums of 0.2 the code accumulates in floating point leave a    *)
(* leader's health a fraction of a step below its maximum, and the odd     *)
(* unit stands for that fraction.  Morale is counted in units of 1/60      *)
(* point, so that every amount the systems add or subtract is an integer.  *)
(***************************************************************************)
EXTENDS Integers, Sequences, FiniteSets, TLC

(***************************************************************************)
(* Bounds of the model.                                                    *)
(***************************************************************************)
MaxTicks == 3          \* World.update calls that run, from the initial state
MaxPausedCalls == 1    \* World.update calls made while the world is paused
MaxLoads == 1          \* World.deserialize calls made
MaxSubscriptions == 3  \* subscriptions held by the event bus at one time
MaxEmits == 3          \* an emit is made from outside a handler while fewer were made

(***************************************************************************)
(* GameConfig.ts                                                           *)
(***************************************************************************)
DistScale == 10                 \* ranges below are in tenths of a world unit
HpScale == 10                   \* health units per hit point
CohScale == 60                  \* morale units per morale point

MAP_SIZE == 200
SHARD_RESPAWN_TICKS == 140
SHARD_PICKUP_RANGE == 35        \* 3.5
SHARD_MAGNET_RANGE == 80        \* 8.0
SHARD_SPAWN_MARGIN == 15
MAX_ARMY_SIZE == 2              \* 60 in GameConfig.ts; scaled so that the cap is reached
CROWN_PICKUP_RANGE == 30        \* 3.0
CROWN_DROP_SHARDS == 5
DEATH_SHARD_DROP == 1
LEADER_HP == 2000               \* 200 HP
LEADER_REGEN_RATE == 2          \* 0.2 HP per tick
SCATTER_DURATION == 2           \* ticks a broken unit scatters (50 in GameConfig.ts)
CHARGE_COOLDOWN == 100
COHESION_FLANK_PENALTY == 1200  \* 20
COHESION_REGEN_RATE == 48       \* 0.8
MORALE_OUTNUMBER_PENALTY == 18  \* 0.3
MORALE_LEADER_HIT_PENALTY == 300 \* 5

\* UNIT_DEFS.militia
MilitiaHp == 400                \* 40 HP
MilitiaAttackDamage == 6
MilitiaAttackRange == 18        \* 1.8
MilitiaAttackCooldown == 12
MilitiaCohesion == 3000         \* 50
StartEngagementRange == 60      \* Game.spawnWarrior: engagementRange 6

(***************************************************************************)
(* Helpers                                                                 *)
(***************************************************************************)
\* statements in sequence: the value v of one step is bound and handed to the next
Then(v, F(_)) == CHOOSE r \in {F(x) : x \in {v}} : TRUE

Min(a, b) == IF a <= b THEN a ELSE b
Max(a, b) == IF a >= b THEN a ELSE b
Abs(a) == IF a < 0 THEN -a ELSE a
Sign(a) == IF a > 0 THEN 1 ELSE IF a < 0 THEN -1 ELSE 0
Range(s) == {s[i] : i \in DOMAIN s}
MinOf(S) == CHOOSE x \in S : \A y \in S : x <= y

\* Map.set / Map.delete on a component store
Put(f, k, v) == [x \in (DOMAIN f) \cup {k} |-> IF x = k THEN v ELSE f[x]]
Drop(f, K) == [x \in (DOMAIN f) \ K |-> f[x]]
Empty == [x \in {} |-> 0]

\* MathUtils.v2Dist on the line
Dist(a, b) == Abs(a - b)
\* Math.atan2(0, to - from): 0 for angle 0, 1 for angle PI (atan2(0, 0) = 0)
Facing(from, to) == IF to - from < 0 THEN 1 ELSE 0
\* Math.cos of a facing angle
Cos(rot) == IF rot = 0 THEN 1 ELSE -1
\* the clamp to the map bounds used by Movement and spawnDeathShards
MapHalf == MAP_SIZE \div 2 - 2
ClampToMap(x) == Max(-MapHalf, Min(MapHalf, x))

(***************************************************************************)
(* SeededRandom: a state word advanced on every call; next() is a function *)
(* of the new state.  The stream stands for Mulberry32 with outputs        *)
(* restricted to next() = 0 and next() = 1/2, written 0 and 1.             *)
(***************************************************************************)
RngStream == <<0, 0, 0, 1, 0, 1, 1, 1>>
RngAdvance(s) == (s + 1) % Len(RngStream)
RngOut(s) == RngStream[s + 1]

VARIABLES
    pc,              \* position inside World.update ("idle" between updates)
    tick,            \* World.tick
    ticksRun,        \* number of updates run from the initial state
    nextEntityId,    \* World.nextEntityId
    alive,           \* World.alive
    pendingDestroy,  \* World.pendingDestroy
    rng,             \* World.rng.state
    transform,       \* CK.Transform store
    health,          \* CK.Health
    team,            \* CK.Team
    unit,            \* CK.Unit
    leader,          \* CK.BannerLeader
    member,          \* CK.WarbandMember
    movable,         \* CK.Movable
    combatant,       \* CK.Combatant
    cohesion,        \* CK.Cohesion
    shard,           \* CK.EssenceShard
    crown,           \* CK.Crown
    bearer,          \* CK.CrownBearer
    ai,              \* CK.AIController
    pendingRespawns, \* ShardSystem.pendingRespawns
    lastChargeHit,   \* CombatSystem.lastChargeHit
    events,          \* events emitted on World.events during the current update
    attacks,         \* for each attack of the current update, what held when it was made
    choices,         \* for each target choice of the current update, what it chose among
    decisions,       \* for each AI decision of the current update, what it decided
    shardDrops,      \* for each death shard of the current update, whence and where
    deathLog,        \* the UnitDied and LeaderKilled events emitted so far
    matchEnds,       \* number of MatchEnded events emitted so far
    crownLog,        \* the crown pickups so far, in order
    deathShards,     \* shards created by ShardSystem.spawnDeathShards so far
    warriorDeaths,   \* non-leader entities whose health fell to <= 0 so far
    leaderDeaths,    \* leaders whose health fell to <= 0 so far
    fallen,          \* the entities whose health fell to <= 0 in the current update
    healed,          \* the entities whose health rose in the current update
    matchTime,       \* World.matchTime, in units of the fixed time step dt
    paused,          \* World.paused
    updateCalls,     \* number of World.update calls made, the skipped ones included
    ran,             \* what the current update has invoked so far, in order
    brokeAt,         \* for each entity that broke, the tick at which it last did
    loads,           \* number of World.deserialize calls made
    loadedVersion,   \* version field of the last snapshot given to deserialize
    listeners,       \* EventBus.listeners: for each event type its subscriptions
    queue,           \* EventBus.queue
    processing,      \* EventBus.processing
    delivered,       \* the handler invocations made so far, in order
    emitted,         \* number of EventBus.emit calls made so far
    maxDepth         \* deepest nesting of handler invocations seen so far

worldVars == <<pc, tick, ticksRun, nextEntityId, alive, pendingDestroy, rng, transform,
          health, team, unit, leader, member, movable, combatant, cohesion, shard,
          crown, bearer, ai, pendingRespawns, lastChargeHit, events, attacks,
          choices, decisions, shardDrops,
          deathLog, matchEnds, crownLog, deathShards, warriorDeaths, leaderDeaths, fallen, healed, matchTime, paused,
          updateCalls, ran, brokeAt, loads, loadedVersion>>

busVars == <<listeners, queue, processing, delivered, emitted, maxDepth>>

vars == <<worldVars, busVars>>

\* The mutable simulation state as one record, threaded through the systems.
Sim ==
    [nextEntityId |-> nextEntityId, alive |-> alive, pendingDestroy |-> pendingDestroy,
     rng |-> rng, transform |-> transform, health |-> health, team |-> team,
     unit |-> unit, leader |-> leader, member |-> member, movable |-> movable,
     combatant |-> combatant, cohesion |-> cohesion, shard |-> shard, crown |-> crown,
     bearer |-> bearer, ai |-> ai, pendingRespawns |-> pendingRespawns,
     lastChargeHit |-> lastChargeHit, events |-> events, attacks |-> attacks,
     choices |-> choices, decisions |-> decisions, shardDrops |-> shardDrops,
     deathShards |-> deathShards]

Commit(w) ==
    /\ nextEntityId' = w.nextEntityId
    /\ alive' = w.alive
    /\ pendingDestroy' = w.pendingDestroy
    /\ rng' = w.rng
    /\ transform' = w.transform
    /\ health' = w.health
    /\ team' = w.team
    /\ unit' = w.unit
    /\ leader' = w.leader
    /\ member' = w.member
    /\ movable' = w.movable
    /\ combatant' = w.combatant
    /\ cohesion' = w.cohesion
    /\ shard' = w.shard
    /\ crown' = w.crown
    /\ bearer' = w.bearer
    /\ ai' = w.ai
    /\ pendingRespawns' = w.pendingRespawns
    /\ lastChargeHit' = w.lastChargeHit
    /\ events' = w.events
    /\ attacks' = w.attacks
    /\ choices' = w.choices
    /\ decisions' = w.decisions
    /\ shardDrops' = w.shardDrops
    /\ deathShards' = w.deathShards

(***************************************************************************)
(* World: entity lifecycle                                                 *)
(***************************************************************************)
CreateEntity(w) ==
    [w EXCEPT !.nextEntityId = @ + 1, !.alive = @ \cup {w.nextEntityId}]

\* Variant: destroyEntity that queues nothing.
DestroyEntity_Lost(w, id) == w

DestroyEntity(w, id) == [w EXCEPT !.pendingDestroy = Append(@, id)]

IsAlive(w, id) == id \in w.alive

\* Variant: the flush that drops the entity from the alive set only.
FlushDestroyed_AliveOnly(w) ==
    [w EXCEPT !.alive = @ \ Range(w.pendingDestroy), !.pendingDestroy = <<>>]

FlushDestroyed(w) ==
    LET gone == Range(w.pendingDestroy) IN
    [w EXCEPT !.alive = @ \ gone,
              !.transform = Drop(@, gone), !.health = Drop(@, gone),
              !.team = Drop(@, gone), !.unit = Drop(@, gone),
              !.leader = Drop(@, gone), !.member = Drop(@, gone),
              !.movable = Drop(@, gone), !.combatant = Drop(@, gone),
              !.cohesion = Drop(@, gone), !.shard = Drop(@, gone),
              !.crown = Drop(@, gone), !.bearer = Drop(@, gone),
              !.ai = Drop(@, gone),
              !.pendingDestroy = <<>>]

Emit(w, e) == [w EXCEPT !.events = Append(@, e)]

\* the army of a leader: ShardSystem.getArmySize, MovementSystem.getArmySize,
\* the counts of spawnWarrior and pickUpCrown
ArmyOf(w, leaderId) == {m \in DOMAIN w.member : w.member[m].leaderId = leaderId}
GetArmySize(w, leaderId) == Cardinality(ArmyOf(w, leaderId))

(***************************************************************************)
(* ShardSystem                                                             *)
(***************************************************************************)
ShardSpawnHalf == MAP_SIZE \div 2 - SHARD_SPAWN_MARGIN

\* randomPosition: x = (next() * 2 - 1) * half; the second draw is the y coordinate
RandomPosition(w) ==
    LET s1 == RngAdvance(w.rng)
        s2 == RngAdvance(s1)
    IN  [rng |-> s2, x |-> (RngOut(s1) - 1) * ShardSpawnHalf]

\* createShard: a new entity with Transform and EssenceShard (glowPhase takes one draw)
CreateShard(w, x) ==
    LET eid == w.nextEntityId
        w1 == CreateEntity(w)
    IN  [w1 EXCEPT !.transform = Put(@, eid, [x |-> x, rot |-> 0]),
                   !.shard = Put(@, eid, [amount |-> 1, fountainId |-> 0]),
                   !.rng = RngAdvance(@)]

\* spawnWarrior: a militia warrior next to the leader, in the next formation slot
SpawnWarrior(w, leaderId, teamId, nearX) ==
    LET eid == w.nextEntityId
        w1 == CreateEntity(w)
        count == GetArmySize(w, leaderId)
        s1 == RngAdvance(w.rng)
        s2 == RngAdvance(s1)
        angle == RngOut(s1)                    \* next() * 2 PI: 0 or PI
        dist == 2 + (3 * RngOut(s2)) \div 2    \* 2 + next() * 3, in cells
        w2 == [w1 EXCEPT
                 !.rng = s2,
                 !.transform = Put(@, eid, [x |-> nearX + Cos(angle) * dist, rot |-> 0]),
                 !.team = Put(@, eid, [teamId |-> teamId]),
                 !.unit = Put(@, eid, [attackDamage |-> MilitiaAttackDamage,
                                       attackRange |-> MilitiaAttackRange,
                                       attackCooldown |-> MilitiaAttackCooldown,
                                       lastAttackTick |-> 0]),
                 !.health = Put(@, eid, [current |-> MilitiaHp, max |-> MilitiaHp]),
                 !.member = Put(@, eid, [leaderId |-> leaderId, indexInFormation |-> count,
                                         teamId |-> teamId]),
                 !.movable = Put(@, eid, [targetPosition |-> <<>>]),
                 !.combatant = Put(@, eid, [inCombat |-> FALSE, targetId |-> 0,
                                            engagementRange |-> MilitiaAttackRange + DistScale]),
                 !.cohesion = Put(@, eid, [current |-> MilitiaCohesion, max |-> MilitiaCohesion,
                                           broken |-> FALSE, scatterTimer |-> 0,
                                           scatterDir |-> <<>>])]
    IN  Emit(w2, [type |-> "WarriorJoined", unitId |-> eid, leaderId |-> leaderId,
                  teamId |-> teamId, newArmySize |-> count + 1])

\* spawnDeathShards: count shards, each 5..8 units away from the death position,
\* clamped to the map bounds
RECURSIVE SpawnDeathShards(_, _, _)
SpawnDeathShards(w, x, count) ==
    IF count <= 0 THEN w
    ELSE LET s1 == RngAdvance(w.rng)
             s2 == RngAdvance(s1)
             angle == RngOut(s1)
             dist == 5 + (3 * RngOut(s2)) \div 2   \* 5 + next() * 3, in cells
             offset == ClampToMap(x + Cos(angle) * dist)
             w1 == CreateShard([w EXCEPT !.rng = s2], offset)
         IN  SpawnDeathShards([w1 EXCEPT !.deathShards = @ + 1,
                                         !.shardDrops = Append(@, [from |-> x, at |-> offset])],
                              x, count - 1)

\* Variant: the collection branch without the army cap test.
BelowCap_Always(w, leaderId) == TRUE

\* the army cap test of the collection branch
BelowCap(w, leaderId) == GetArmySize(w, leaderId) < MAX_ARMY_SIZE

\* ShardSystem.update, lines 94-117: the leader is within pickup range of the shard
CollectShard(w, leaderId, shardId) ==
    LET lt == w.transform[leaderId]
        w1 == IF leaderId \in DOMAIN w.team /\ BelowCap(w, leaderId)
              THEN SpawnWarrior(w, leaderId, w.team[leaderId].teamId, lt.x)
              ELSE w
        rp == RandomPosition(w1)
        w2 == [w1 EXCEPT !.rng = rp.rng,
                         !.pendingRespawns =
                             Append(@, [pos |-> rp.x, timer |-> SHARD_RESPAWN_TICKS])]
        w3 == DestroyEntity(w2, shardId)
    IN  Emit(w3, [type |-> "ShardCollected", shardId |-> shardId,
                  collectorId |-> leaderId, amount |-> w.shard[shardId].amount])

\* one iteration of the inner loop: collection, else magnet pull (one cell)
ShardVisit(w, leaderId, shardId) ==
    IF shardId \notin DOMAIN w.transform THEN w
    ELSE LET dx == w.transform[leaderId].x - w.transform[shardId].x
             dist == Abs(dx)
         IN  IF DistScale * dist < SHARD_PICKUP_RANGE
             THEN CollectShard(w, leaderId, shardId)
             ELSE IF DistScale * dist < SHARD_MAGNET_RANGE /\ dist >= 1
             THEN [w EXCEPT !.transform[shardId].x = @ + Sign(dx)]
             ELSE w

RECURSIVE ShardLoop(_, _, _)
ShardLoop(w, leaderId, todo) ==
    IF todo = {} THEN w
    ELSE ShardLoop(ShardVisit(w, leaderId, MinOf(todo)), leaderId, todo \ {MinOf(todo)})

RECURSIVE ShardLeaderLoop(_, _)
ShardLeaderLoop(w, todo) ==
    IF todo = {} THEN w
    ELSE LET l == MinOf(todo)
             w1 == IF l \in DOMAIN w.transform THEN ShardLoop(w, l, DOMAIN w.shard) ELSE w
         IN  ShardLeaderLoop(w1, todo \ {l})

RemoveAt(s, i) == SubSeq(s, 1, i - 1) \o SubSeq(s, i + 1, Len(s))

\* the respawn loop, from the last queued entry to the first
RECURSIVE HandleRespawns(_, _)
HandleRespawns(w, i) ==
    IF i = 0 THEN w
    ELSE LET r == w.pendingRespawns[i] IN
         IF r.timer - 1 <= 0
         THEN HandleRespawns([CreateShard(w, r.pos) EXCEPT
                                 !.pendingRespawns = RemoveAt(@, i)], i - 1)
         ELSE HandleRespawns([w EXCEPT !.pendingRespawns[i].timer = @ - 1], i - 1)

ShardSystemUpdate(w) ==
    LET w1 == ShardLeaderLoop(w, DOMAIN w.leader)
    IN  HandleRespawns(w1, Len(w1.pendingRespawns))

(***************************************************************************)
(* MovementSystem                                                          *)
(***************************************************************************)
\* leader loop: one cell towards the target, facing the travel direction, clamped
LeaderMove(w, id) ==
    IF id \notin DOMAIN w.transform \/ id \notin DOMAIN w.movable
       \/ w.movable[id].targetPosition = <<>>
    THEN w
    ELSE LET dx == w.movable[id].targetPosition[1] - w.transform[id].x
             t == w.transform[id]
             moved == IF Abs(dx) >= 1
                      THEN [x |-> t.x + Sign(dx), rot |-> Facing(0, dx)]
                      ELSE t
         IN  [w EXCEPT !.transform[id] = [moved EXCEPT !.x = ClampToMap(@)]]

\* getFormationTarget on the line: column (spacing 1.8), line (2 behind), wedge (2.5)
FormationTarget(leaderX, formation, index, leaderRot) ==
    CASE formation = "column" -> leaderX - Cos(leaderRot) * (((index + 1) * 18) \div DistScale)
      [] formation = "line"   -> leaderX - Cos(leaderRot) * 2
      [] formation = "wedge"  -> leaderX - Cos(leaderRot) * (((index \div 2 + 1) * 25) \div DistScale)
      [] OTHER -> leaderX

\* member loop: scattered drift, combat mode or formation mode
MemberMove(w, id) ==
    LET m == w.member[id] IN
    IF m.leaderId = 0 \/ id \notin DOMAIN w.transform \/ id \notin DOMAIN w.unit THEN w
    ELSE IF id \in DOMAIN w.cohesion /\ w.cohesion[id].broken
    THEN IF w.cohesion[id].scatterDir # <<>>
         THEN [w EXCEPT !.transform[id].x = @ + Cos(w.cohesion[id].scatterDir[1])]
         ELSE w
    ELSE IF m.leaderId \notin DOMAIN w.transform \/ m.leaderId \notin DOMAIN w.leader THEN w
    ELSE LET t == w.transform[id]
             hasCombatTarget == /\ id \in DOMAIN w.combatant
                                /\ w.combatant[id].inCombat
                                /\ w.combatant[id].targetId > 0
             inCombatMode == hasCombatTarget /\ w.combatant[id].targetId \in DOMAIN w.transform
             toDx == IF inCombatMode
                     THEN w.transform[w.combatant[id].targetId].x - t.x
                     ELSE FormationTarget(w.transform[m.leaderId].x, w.leader[m.leaderId].formation,
                                          m.indexInFormation, w.transform[m.leaderId].rot) - t.x
             steer == IF inCombatMode
                      THEN IF DistScale * 100 * Abs(toDx) > w.unit[id].attackRange * 95
                           THEN Sign(toDx) ELSE 0
                      ELSE Sign(toDx)
             rot == IF inCombatMode
                    THEN IF Abs(toDx) >= 1 THEN Facing(0, toDx) ELSE t.rot
                    ELSE IF ~hasCombatTarget /\ steer # 0 THEN Facing(0, steer) ELSE t.rot
         IN  [w EXCEPT !.transform[id] = [x |-> ClampToMap(t.x + steer), rot |-> rot]]

RECURSIVE LeaderMoveLoop(_, _)
LeaderMoveLoop(w, todo) ==
    IF todo = {} THEN w
    ELSE LeaderMoveLoop(LeaderMove(w, MinOf(todo)), todo \ {MinOf(todo)})

RECURSIVE MemberMoveLoop(_, _)
MemberMoveLoop(w, todo) ==
    IF todo = {} THEN w
    ELSE MemberMoveLoop(MemberMove(w, MinOf(todo)), todo \ {MinOf(todo)})

MovementSystemUpdate(w) ==
    LET w1 == LeaderMoveLoop(w, DOMAIN w.leader)
    IN  MemberMoveLoop(w1, DOMAIN w1.member)

(***************************************************************************)
(* CrownSystem                                                             *)
(***************************************************************************)
\* handleLeaderDeath: crown drop, shard burst, members made leaderless, events,
\* deferred destruction of the leader
\* Variant: the followers of the dead leader are not made leaderless.
HandleLeaderDeath_KeepFollowers(w, leaderId, killerTeamId) ==
    IF leaderId \notin DOMAIN w.transform THEN w
    ELSE LET lt == w.transform[leaderId]
             teamId == IF leaderId \in DOMAIN w.team THEN w.team[leaderId].teamId ELSE 0
             crownId == w.nextEntityId
             w1 == [CreateEntity(w) EXCEPT
                      !.transform = Put(@, crownId, [x |-> lt.x, rot |-> 0]),
                      !.crown = Put(@, crownId, [originalTeamId |-> teamId, dropped |-> TRUE,
                                                 dropTimer |-> 0])]
             w2 == SpawnDeathShards(w1, lt.x, CROWN_DROP_SHARDS)
             w4 == Emit(w2, [type |-> "CrownDropped", crownId |-> crownId, position |-> lt.x,
                             originalTeamId |-> teamId])
             w5 == Emit(w4, [type |-> "LeaderKilled", leaderId |-> leaderId, teamId |-> teamId,
                             killedByTeamId |-> killerTeamId])
         IN  DestroyEntity(w5, leaderId)

HandleLeaderDeath(w, leaderId, killerTeamId) ==
    IF leaderId \notin DOMAIN w.transform THEN w
    ELSE LET lt == w.transform[leaderId]
             teamId == IF leaderId \in DOMAIN w.team THEN w.team[leaderId].teamId ELSE 0
             crownId == w.nextEntityId
             w1 == [CreateEntity(w) EXCEPT
                      !.transform = Put(@, crownId, [x |-> lt.x, rot |-> 0]),
                      !.crown = Put(@, crownId, [originalTeamId |-> teamId, dropped |-> TRUE,
                                                 dropTimer |-> 0])]
             w2 == SpawnDeathShards(w1, lt.x, CROWN_DROP_SHARDS)
             w3 == [w2 EXCEPT !.member =
                       [m \in DOMAIN w2.member |->
                           IF w2.member[m].leaderId = leaderId
                           THEN [w2.member[m] EXCEPT !.leaderId = 0] ELSE w2.member[m]]]
             w4 == Emit(w3, [type |-> "CrownDropped", crownId |-> crownId, position |-> lt.x,
                             originalTeamId |-> teamId])
             w5 == Emit(w4, [type |-> "LeaderKilled", leaderId |-> leaderId, teamId |-> teamId,
                             killedByTeamId |-> killerTeamId])
         IN  DestroyEntity(w5, leaderId)

\* Variant: every leaderless member is handed over, whatever its team.
Absorbable_AnyTeam(w, originalTeamId) ==
    {m \in DOMAIN w.member : w.member[m].leaderId = 0}

\* the members a crown of the given origin team hands over
Absorbable(w, originalTeamId) ==
    {m \in DOMAIN w.member : w.member[m].leaderId = 0 /\ w.member[m].teamId = originalTeamId}

\* Variant: absorption that rewrites WarbandMember but not the Team component.
RECURSIVE Absorb_KeepTeam(_, _, _, _, _)
Absorb_KeepTeam(w, todo, leaderId, collectorTeamId, slot) ==
    IF todo = {} THEN w
    ELSE LET m == MinOf(todo) IN
         Absorb_KeepTeam([w EXCEPT !.member[m] = [leaderId |-> leaderId,
                                                  indexInFormation |-> slot,
                                                  teamId |-> collectorTeamId]],
                         todo \ {m}, leaderId, collectorTeamId, slot + 1)

\* the absorption loop of pickUpCrown, in store order
RECURSIVE Absorb(_, _, _, _, _)
Absorb(w, todo, leaderId, collectorTeamId, slot) ==
    IF todo = {} THEN w
    ELSE LET m == MinOf(todo) IN
         Absorb([w EXCEPT !.member[m] = [leaderId |-> leaderId, indexInFormation |-> slot,
                                         teamId |-> collectorTeamId],
                          !.team[m] = [teamId |-> collectorTeamId]],
                todo \ {m}, leaderId, collectorTeamId, slot + 1)

\* the win check of pickUpCrown: is any other entity in the BannerLeader store?
OtherLeadersAlive(w, leaderId) == (DOMAIN w.leader) \ {leaderId} # {}

PickUpCrown(w, leaderId, crownId, collectorTeamId) ==
    LET c == w.crown[crownId]
        currentCount == GetArmySize(w, leaderId)
        gained == Absorbable(w, c.originalTeamId)
        absorbed == Cardinality(gained)
        w1 == Absorb(w, gained, leaderId, collectorTeamId, currentCount)
        old == IF leaderId \in DOMAIN w.bearer THEN w.bearer[leaderId]
               ELSE [crownsCollected |-> 0, glowIntensity |-> 0]
        new == [crownsCollected |-> old.crownsCollected + 1,
                glowIntensity |-> Min(4, old.crownsCollected + 1)]  \* quarters: 0.25 per crown
        w2 == DestroyEntity([w1 EXCEPT !.bearer = Put(@, leaderId, new)], crownId)
        w3 == Emit(w2, [type |-> "CrownPickedUp", crownId |-> crownId, collectorId |-> leaderId,
                        totalCrowns |-> new.crownsCollected])
        w4 == Emit(w3, [type |-> "ArmyAbsorbed", absorberId |-> leaderId,
                        absorbedTeamId |-> c.originalTeamId, warriorsGained |-> absorbed])
    IN  IF OtherLeadersAlive(w4, leaderId) THEN w4
        ELSE Emit(w4, [type |-> "MatchEnded", winnerId |-> collectorTeamId,
                       reason |-> "crown_victory", winnerArmySize |-> currentCount + absorbed])

\* the leaders that may pick the crown up, in the order the inner loop visits them
CrownCandidates(w, crownId) ==
    {l \in DOMAIN w.leader :
        /\ l \in DOMAIN w.transform
        /\ l \in DOMAIN w.team
        /\ w.team[l].teamId # w.crown[crownId].originalTeamId
        /\ DistScale * Dist(w.transform[l].x, w.transform[crownId].x) < CROWN_PICKUP_RANGE}

CrownVisit(w, crownId) ==
    IF ~w.crown[crownId].dropped THEN w
    ELSE LET w1 == [w EXCEPT !.crown[crownId].dropTimer = @ + 1] IN
         IF crownId \notin DOMAIN w1.transform \/ CrownCandidates(w1, crownId) = {} THEN w1
         ELSE LET l == MinOf(CrownCandidates(w1, crownId))
              IN  PickUpCrown(w1, l, crownId, w1.team[l].teamId)

RECURSIVE CrownLoop(_, _)
CrownLoop(w, todo) ==
    IF todo = {} THEN w
    ELSE CrownLoop(CrownVisit(w, MinOf(todo)), todo \ {MinOf(todo)})

CrownSystemUpdate(w) == CrownLoop(w, DOMAIN w.crown)

(***************************************************************************)
(* CombatSystem                                                            *)
(***************************************************************************)
\* teamArmyCounts: led members per team, counted once at the start of update
TeamArmyCount(w, teamId) ==
    Cardinality({m \in DOMAIN w.member :
                    w.member[m].teamId = teamId /\ w.member[m].teamId > 0
                    /\ w.member[m].leaderId > 0})

\* morale / scatter timers; scat[e] is the Math.random scatter direction of e
\* Variant: the countdown test is 'scatterTimer < 0', one tick late.
MoraleTick_Late(coh, dir) ==
    IF coh.broken
    THEN IF coh.scatterTimer - 1 < 0
         THEN [coh EXCEPT !.scatterTimer = @ - 1, !.broken = FALSE,
                          !.current = coh.max \div 2, !.scatterDir = <<>>]
         ELSE [coh EXCEPT !.scatterTimer = @ - 1]
    ELSE IF coh.current <= 0
         THEN [coh EXCEPT !.broken = TRUE, !.scatterTimer = SCATTER_DURATION,
                          !.scatterDir = <<dir>>]
         ELSE coh

MoraleTick(coh, dir) ==
    IF coh.broken
    THEN IF coh.scatterTimer - 1 <= 0
         THEN [coh EXCEPT !.scatterTimer = @ - 1, !.broken = FALSE,
                          !.current = coh.max \div 2, !.scatterDir = <<>>]
         ELSE [coh EXCEPT !.scatterTimer = @ - 1]
    ELSE IF coh.current <= 0
         THEN [coh EXCEPT !.broken = TRUE, !.scatterTimer = SCATTER_DURATION,
                          !.scatterDir = <<dir>>]
         ELSE coh

Breaking(w) == {e \in DOMAIN w.cohesion : ~w.cohesion[e].broken /\ w.cohesion[e].current <= 0}

MoraleLoop(w, scat) ==
    [w EXCEPT !.cohesion =
        [e \in DOMAIN w.cohesion |->
            MoraleTick(w.cohesion[e], IF e \in DOMAIN scat THEN scat[e] ELSE 0)]]

\* the enemies a combatant may target: other team, alive, health > 0, with Transform
\* Variant: the target scan without the skip of entities whose health is <= 0.
Enemies_WithDead(w, eid) ==
    {o \in DOMAIN w.team :
        /\ o # eid
        /\ w.team[o].teamId # w.team[eid].teamId
        /\ IsAlive(w, o)
        /\ o \in DOMAIN w.health
        /\ o \in DOMAIN w.transform}

\* Variant: the target scan without the skip of entities of the attacker's team.
Enemies_AnyTeam(w, eid) ==
    {o \in DOMAIN w.team :
        /\ o # eid
        /\ IsAlive(w, o)
        /\ o \in DOMAIN w.health
        /\ w.health[o].current > 0
        /\ o \in DOMAIN w.transform}

Enemies(w, eid) ==
    {o \in DOMAIN w.team :
        /\ o # eid
        /\ w.team[o].teamId # w.team[eid].teamId
        /\ IsAlive(w, o)
        /\ o \in DOMAIN w.health
        /\ w.health[o].current > 0
        /\ o \in DOMAIN w.transform}

\* the first entity of S, in store order, at the least distance from eid (0 if none)
Nearest(w, eid, S) ==
    IF S = {} THEN 0
    ELSE LET d(o) == Dist(w.transform[eid].x, w.transform[o].x)
             best == MinOf({d(o) : o \in S})
         IN  MinOf({o \in S : d(o) = best})

\* the distance from eid of every entity of S that eid may fight: of another team,
\* alive, with health above 0 and a Transform (lines 112-121)
FoeDistances(w, eid, S) ==
    [o \in {e \in S \cap DOMAIN w.team \cap DOMAIN w.health \cap DOMAIN w.transform :
                /\ e # eid
                /\ w.team[e].teamId # w.team[eid].teamId
                /\ IsAlive(w, e)
                /\ w.health[e].current > 0}
        |-> DistScale * Dist(w.transform[eid].x, w.transform[o].x)]

\* what the combatant eid chose and among what (lines 108-151)
ChoiceFacts(w, eid, targetId) ==
    [eid |-> eid, targetId |-> targetId,
     range |-> w.combatant[eid].engagementRange,
     warriors |-> FoeDistances(w, eid, DOMAIN w.unit),
     leaders |-> FoeDistances(w, eid, DOMAIN w.leader \ DOMAIN w.unit)]

\* Variant: the leader fallback at the full engagement range.
ChooseTarget_LeaderFullRange(w, eid) ==
    LET en == Enemies(w, eid)
        nearestWarrior == Nearest(w, eid, en \cap DOMAIN w.unit)
        nearestLeader == Nearest(w, eid, (en \ DOMAIN w.unit) \cap DOMAIN w.leader)
        range == w.combatant[eid].engagementRange
        d(o) == Dist(w.transform[eid].x, w.transform[o].x)
    IN  IF nearestWarrior # 0 /\ DistScale * d(nearestWarrior) <= range
        THEN nearestWarrior
        ELSE IF nearestLeader # 0 /\ DistScale * d(nearestLeader) <= range
        THEN nearestLeader
        ELSE 0

\* target choice: the nearest warrior within engagement range, else the nearest
\* leader within 70% of it, else 0
ChooseTarget(w, eid) ==
    LET en == Enemies(w, eid)
        nearestWarrior == Nearest(w, eid, en \cap DOMAIN w.unit)
        nearestLeader == Nearest(w, eid, (en \ DOMAIN w.unit) \cap DOMAIN w.leader)
        range == w.combatant[eid].engagementRange
        d(o) == Dist(w.transform[eid].x, w.transform[o].x)
    IN  IF nearestWarrior # 0 /\ DistScale * d(nearestWarrior) <= range
        THEN nearestWarrior
        ELSE IF nearestLeader # 0 /\ DistScale * 10 * d(nearestLeader) <= range * 7
        THEN nearestLeader
        ELSE 0

\* the charge bonus test: tick - (lastChargeHit.get(eid) ?? 0) > CHARGE_COOLDOWN
ChargeReady(w, eid, now) ==
    now - (IF eid \in DOMAIN w.lastChargeHit THEN w.lastChargeHit[eid] ELSE 0) > CHARGE_COOLDOWN

\* the flanking test on the line: the angle from the target to the attacker equals
\* the target's facing (difference 0 < 0.4 PI; the only other difference is PI)
IsFlanking(w, eid, targetId) ==
    Facing(w.transform[targetId].x, w.transform[eid].x) = w.transform[targetId].rot

\* damage of one attack, in hit points
AttackDamage(w, eid, targetId, now) ==
    LET base == w.unit[eid].attackDamage
        charged == IF ChargeReady(w, eid, now) THEN base * 2 ELSE base
    IN  IF IsFlanking(w, eid, targetId) THEN (charged * 3) \div 2 ELSE charged

\* Variant: the drained morale is not floored at 0.
DrainMorale_NoFloor(coh, amount) ==
    IF coh.broken THEN coh ELSE [coh EXCEPT !.current = @ - amount]

\* a morale drain, skipped for a broken unit: Math.max(0, current - amount)
DrainMorale(coh, amount) ==
    IF coh.broken THEN coh ELSE [coh EXCEPT !.current = Max(0, @ - amount)]

\* what holds of the attacker and of its target when the attack is resolved
\* (lines 165-206), before any of its effects
AttackFacts(w, eid, targetId, now, damage) ==
    [tick |-> now, attackerId |-> eid, victimId |-> targetId, amount |-> damage,
     base |-> w.unit[eid].attackDamage,
     armed |-> eid \in DOMAIN w.combatant /\ eid \in DOMAIN w.unit,
     attackerIsLeader |-> eid \in DOMAIN w.leader,
     attackerHp |-> w.health[eid].current,
     attackerBroken |-> eid \in DOMAIN w.cohesion /\ w.cohesion[eid].broken,
     attackerTeam |-> w.team[eid].teamId,
     victimAlive |-> IsAlive(w, targetId),
     victimHp |-> w.health[targetId].current,
     victimTeam |-> w.team[targetId].teamId,
     flanking |-> IsFlanking(w, eid, targetId),
     lastCharge |-> IF eid \in DOMAIN w.lastChargeHit THEN <<w.lastChargeHit[eid]>> ELSE <<>>]

\* lines 209-221: a hit on a leader drains the morale of its followers
LeaderHitCascade(w, targetId) ==
    IF targetId \in DOMAIN w.leader /\ targetId \in DOMAIN w.team
    THEN [w EXCEPT !.cohesion =
            [m \in DOMAIN w.cohesion |->
                IF m \in DOMAIN w.member /\ w.member[m].leaderId = targetId
                THEN DrainMorale(w.cohesion[m], MORALE_LEADER_HIT_PENALTY)
                ELSE w.cohesion[m]]]
    ELSE w

\* lines 224-233: the entry pushed on deadEntities
DeadEntry(w, eid, targetId) ==
    [id |-> targetId, x |-> w.transform[targetId].x,
     isLeader |-> targetId \in DOMAIN w.leader,
     teamId |-> IF targetId \in DOMAIN w.team THEN w.team[targetId].teamId ELSE 0,
     killerTeamId |-> w.team[eid].teamId]

\* lines 166-233: one attack of eid on targetId; dead is the deadEntities list
Attack(w, dead, eid, targetId, now, stagger) ==
    Then(AttackDamage(w, eid, targetId, now), LAMBDA damage :
    Then([w EXCEPT !.unit[eid].lastAttackTick = now + stagger,
                   !.lastChargeHit = IF ChargeReady(w, eid, now)
                                     THEN Put(@, eid, now) ELSE @,
                   !.cohesion = IF IsFlanking(w, eid, targetId) /\ targetId \in DOMAIN @
                                THEN [@ EXCEPT ![targetId] =
                                         DrainMorale(@, COHESION_FLANK_PENALTY)]
                                ELSE @,
                   !.health[targetId].current = @ - damage * HpScale,
                   !.events = Append(@, [type |-> "DamageDealt", attackerId |-> eid,
                                         victimId |-> targetId, amount |-> damage]),
                   !.attacks = Append(@, AttackFacts(w, eid, targetId, now, damage))],
         LAMBDA w1 :
    Then(LeaderHitCascade(w1, targetId), LAMBDA w2 :
    [w |-> w2,
     dead |-> IF w2.health[targetId].current <= 0
              THEN Append(dead, DeadEntry(w2, eid, targetId)) ELSE dead])))

\* lines 240-258: outnumber drain while in combat, regeneration while not
MoraleAfterFight(w, w0, eid, targetId) ==
    IF eid \notin DOMAIN w.cohesion THEN w
    ELSE LET coh == w.cohesion[eid] IN
         IF w.combatant[eid].inCombat
         THEN IF ~coh.broken /\ targetId # 0
              THEN LET my == TeamArmyCount(w0, w.team[eid].teamId)
                       enemy == TeamArmyCount(w0, IF targetId \in DOMAIN w.team
                                                  THEN w.team[targetId].teamId ELSE 0)
                   IN  IF 10 * enemy > 13 * my
                       THEN [w EXCEPT !.cohesion[eid].current =
                               Max(0, @ - (MORALE_OUTNUMBER_PENALTY * enemy) \div Max(1, my))]
                       ELSE w
              ELSE w
         ELSE IF ~coh.broken /\ coh.current < coh.max
              THEN [w EXCEPT !.cohesion[eid].current = Min(coh.max, @ + COHESION_REGEN_RATE)]
              ELSE w

\* lines 153-163: the combatant engages its target and turns towards it
Engage(w, eid, targetId) ==
    [w EXCEPT !.combatant[eid].inCombat = TRUE,
              !.combatant[eid].targetId = targetId,
              !.transform[eid].rot = Facing(w.transform[eid].x, w.transform[targetId].x)]

Disengage(w, eid) ==
    [w EXCEPT !.combatant[eid].inCombat = FALSE, !.combatant[eid].targetId = 0]

\* lines 165-167: in attack range and off cooldown
CanAttack(w, eid, targetId, now) ==
    /\ DistScale * Dist(w.transform[eid].x, w.transform[targetId].x) <= w.unit[eid].attackRange
    /\ now - w.unit[eid].lastAttackTick >= w.unit[eid].attackCooldown

\* one iteration of the combatant loop; c carries the world and the deadEntities
\* list, w0 is the world at the start of update
CombatantStep(c, w0, eid, now, stag) ==
    Then(c.w, LAMBDA w :
    IF \/ eid \notin DOMAIN w.transform \/ eid \notin DOMAIN w.unit
       \/ eid \notin DOMAIN w.health \/ eid \notin DOMAIN w.team
       \/ w.health[eid].current <= 0
    THEN c
    ELSE IF eid \in DOMAIN w.cohesion /\ w.cohesion[eid].broken
    THEN [c EXCEPT !.w = Disengage(w, eid)]
    ELSE Then(ChooseTarget(w, eid), LAMBDA targetId :
         Then([w EXCEPT !.choices = Append(@, ChoiceFacts(w, eid, targetId))], LAMBDA wc :
         IF targetId = 0
         THEN Then(Disengage(wc, eid), LAMBDA w1 :
              [c EXCEPT !.w = MoraleAfterFight(w1, w0, eid, 0)])
         ELSE Then(Engage(wc, eid, targetId), LAMBDA w1 :
              Then(IF CanAttack(wc, eid, targetId, now)
                   THEN Attack(w1, c.dead, eid, targetId, now,
                               IF eid \in DOMAIN stag THEN stag[eid] ELSE 0)
                   ELSE [c EXCEPT !.w = w1],
                   LAMBDA c1 :
              Then(c1.w, LAMBDA w2 :
              [c1 EXCEPT !.w = MoraleAfterFight(w2, w0, eid, targetId)]))))))

RECURSIVE CombatantLoop(_, _, _, _, _)
CombatantLoop(c, w0, todo, now, stag) ==
    IF todo = {} THEN c
    ELSE Then(CombatantStep(c, w0, MinOf(todo), now, stag), LAMBDA c1 :
         CombatantLoop(c1, w0, todo \ {MinOf(todo)}, now, stag))

\* leader health regeneration when no combatant has the leader as its target
\* Variant: regeneration without the clamp to max.
RegenHealth_NoClamp(hp) == [hp EXCEPT !.current = @ + LEADER_REGEN_RATE]

RegenHealth(hp) == [hp EXCEPT !.current = Min(hp.max, @ + LEADER_REGEN_RATE)]

UnderAttack(w, leaderId) ==
    \E e \in DOMAIN w.combatant :
        w.combatant[e].inCombat /\ w.combatant[e].targetId = leaderId

Regenerating(w) ==
    {l \in DOMAIN w.leader :
        /\ l \in DOMAIN w.health
        /\ w.health[l].current < w.health[l].max
        /\ l \in DOMAIN w.transform
        /\ l \in DOMAIN w.team
        /\ ~UnderAttack(w, l)}

LeaderRegen(w) ==
    [w EXCEPT !.health =
        [e \in DOMAIN w.health |->
            IF e \in Regenerating(w) THEN RegenHealth(w.health[e]) ELSE w.health[e]]]

\* lines 284-299: one queued death
ProcessDeath(w, dead) ==
    IF ~IsAlive(w, dead.id) THEN w
    ELSE Then([w EXCEPT !.lastChargeHit = Drop(@, {dead.id})], LAMBDA w1 :
         Then(IF dead.isLeader
              THEN HandleLeaderDeath(w1, dead.id, dead.killerTeamId)
              ELSE DestroyEntity(SpawnDeathShards(w1, dead.x, DEATH_SHARD_DROP), dead.id),
              LAMBDA w2 :
         Emit(w2, [type |-> "UnitDied", unitId |-> dead.id])))

RECURSIVE ProcessDeaths(_, _, _)
ProcessDeaths(w, deadEntities, i) ==
    IF i > Len(deadEntities) THEN w
    ELSE Then(ProcessDeath(w, deadEntities[i]), LAMBDA w1 :
         ProcessDeaths(w1, deadEntities, i + 1))

\* CombatSystem.update at tick now; scat and stag are the Math.random outcomes
CombatSystemUpdate(w, now, scat, stag) ==
    Then(MoraleLoop(w, scat), LAMBDA w1 :
    Then(CombatantLoop([w |-> w1, dead |-> <<>>], w, DOMAIN w1.combatant, now, stag),
         LAMBDA c :
    Then(LeaderRegen(c.w), LAMBDA w2 :
    ProcessDeaths(w2, c.dead, 1))))

\* the combatants that attack in this update (their stagger is drawn)
Attackers(w, now) ==
    Then(CombatSystemUpdate(w, now, Empty, Empty), LAMBDA after :
    {e \in DOMAIN w.unit :
        e \in DOMAIN after.unit /\ after.unit[e].lastAttackTick # w.unit[e].lastAttackTick})

(***************************************************************************)
(* AISystem.  Aggression is held in hundredths (0.9 is 90).  On the line    *)
(* the flank offset cos(angle +- 0.55 PI) * 12 = -+1.88 is rounded to 2.    *)
(***************************************************************************)
AI_DECISION_INTERVAL == 15
AI_AGGRESSION_THRESHOLD == 10
AI_RETREAT_THRESHOLD == 25          \* 0.25
AI_PERSONALITY_VARIANCE == 30       \* 0.3

\* line 56: Math.max(8, Math.floor(AI_DECISION_INTERVAL * (1 + (aggression - 0.5) * 0.3)))
PersonalInterval(aggression) ==
    Max(8, (AI_DECISION_INTERVAL * (1000 + 3 * (aggression - 50))) \div 1000)

\* line 67: Math.floor(AI_AGGRESSION_THRESHOLD * (1 - aggression * AI_PERSONALITY_VARIANCE))
AggressionThreshold(aggression) ==
    (AI_AGGRESSION_THRESHOLD * (10000 - aggression * AI_PERSONALITY_VARIANCE)) \div 10000

\* lines 68, 103, 147: myArmy / enemyArmy < retreatThreshold, for enemyArmy > 0
Outmatched(aggression, myArmy, enemyArmy) ==
    /\ enemyArmy > 0
    /\ myArmy * 1000000
          < enemyArmy * AI_RETREAT_THRESHOLD * (10000 + (100 - aggression) * AI_PERSONALITY_VARIANCE)

\* findNearestEnemy: the nearest leader of another team (id 0: none, distance infinite)
FindNearestEnemy(w, myId) ==
    Then(Nearest(w, myId, {l \in (DOMAIN w.leader \cap DOMAIN w.team \cap DOMAIN w.transform)
                                    \ {myId} : w.team[l].teamId # w.team[myId].teamId}),
         LAMBDA lid :
             IF lid = 0 THEN [id |-> 0, x |-> 0, dist |-> 0, army |-> 0]
             ELSE [id |-> lid, x |-> w.transform[lid].x,
                   dist |-> Dist(w.transform[myId].x, w.transform[lid].x),
                   army |-> GetArmySize(w, lid)])

RECURSIVE SumOfX(_, _)
SumOfX(w, S) == IF S = {} THEN 0
                ELSE w.transform[MinOf(S)].x + SumOfX(w, S \ {MinOf(S)})

\* findNearestShardCluster: the mean position of the best cell of 20 units holding
\* two shards or more, by 3 per shard less half the distance; <<>> if there is none.
\* Cells are met in the order of their first shard; a later cell wins only if better.
FindNearestShardCluster(w, x) ==
    LET sids == DOMAIN w.shard \cap DOMAIN w.transform
        cellOf(sid) == w.transform[sid].x \div 20
        inCell(c) == {sid \in sids : cellOf(sid) = c}
        cells == {c \in {cellOf(sid) : sid \in sids} : Cardinality(inCell(c)) >= 2}
        avg(c) == SumOfX(w, inCell(c)) \div Cardinality(inCell(c))
        score(c) == 6 * Cardinality(inCell(c)) - Dist(x, avg(c))
        best == {c \in cells : \A d \in cells : score(d) <= score(c)}
    IN  IF cells = {} THEN <<>>
        ELSE <<avg(CHOOSE c \in best : \A d \in best : MinOf(inCell(c)) <= MinOf(inCell(d)))>>

\* randomMapPoint: x = (next() * 2 - 1) * half; the second draw is the y coordinate
RandomMapPoint(w) ==
    LET s1 == RngAdvance(w.rng)
        s2 == RngAdvance(s1)
    IN  [rng |-> s2, x |-> (RngOut(s1) - 1) * (MAP_SIZE \div 2 - 15)]

AIGoto(w, id, state) == [w EXCEPT !.ai[id].state = state, !.ai[id].stateTimer = 0]

AIMoveTo(w, id, x) == [w EXCEPT !.movable[id].targetPosition = <<x>>]

\* lines 72-88: farm
AIFarm(w, id, myArmy, e) ==
    Then(FindNearestShardCluster(w, w.transform[id].x), LAMBDA shardTarget :
    Then(IF shardTarget # <<>> THEN AIMoveTo(w, id, shardTarget[1])
         ELSE Then(RandomMapPoint(w), LAMBDA r :
                   AIMoveTo([w EXCEPT !.rng = r.rng], id, r.x)), LAMBDA w1 :
    Then(IF \/ myArmy >= AggressionThreshold(w.ai[id].aggression)
            \/ (e.id # 0 /\ e.dist < 20 /\ myArmy > 3)
         THEN AIGoto(w1, id, "hunt") ELSE w1, LAMBDA w2 :
    IF w2.ai[id].aggression > 70 /\ w2.ai[id].stateTimer > 40 /\ myArmy > 3
    THEN AIGoto(w2, id, "hunt") ELSE w2)))

\* lines 97-134: hunt
AIHunt(w, id, myArmy, e) ==
    IF e.id = 0 THEN [w EXCEPT !.ai[id].state = "farm"]
    ELSE IF Outmatched(w.ai[id].aggression, myArmy, e.army) /\ myArmy < 5
    THEN AIGoto(w, id, "retreat")
    ELSE IF 10 * myArmy > 12 * e.army /\ e.dist > 12 /\ e.dist < 40
    THEN AIGoto(w, id, "flank")
    ELSE Then(AIMoveTo(w, id, e.x), LAMBDA w1 :
         Then(IF e.dist < 8 THEN AIGoto(w1, id, "engage") ELSE w1, LAMBDA w2 :
         IF w2.ai[id].stateTimer > 100 /\ e.dist > 30 THEN AIGoto(w2, id, "farm") ELSE w2))

\* lines 137-165: engage
AIEngage(w, id, myArmy, e) ==
    IF e.id = 0 THEN [w EXCEPT !.ai[id].state = "farm"]
    ELSE Then(AIMoveTo(w, id, e.x), LAMBDA w1 :
         IF Outmatched(w.ai[id].aggression, myArmy, e.army)
         THEN AIGoto(w1, id, "retreat")
         ELSE Then(IF e.dist > 15 THEN AIGoto(w1, id, "hunt") ELSE w1, LAMBDA w2 :
              IF w2.ai[id].stateTimer > 50 /\ w2.ai[id].aggression > 50 /\ myArmy > e.army
              THEN AIGoto(w2, id, "flank") ELSE w2))

\* lines 168-200: retreat
AIRetreat(w, id, myArmy, e) ==
    Then(w.transform[id].x, LAMBDA x :
    Then(IF e.id = 0 THEN w
         ELSE Then(FindNearestShardCluster(w, x), LAMBDA shardTarget :
              IF shardTarget # <<>> /\ Dist(x, shardTarget[1]) < 30
              THEN AIMoveTo(w, id, shardTarget[1])
              ELSE AIMoveTo(w, id, Max(10 - MAP_SIZE \div 2,
                                       Min(MAP_SIZE \div 2 - 10, x + Sign(x - e.x) * 35)))),
         LAMBDA w1 :
    Then(IF w1.ai[id].stateTimer > 40 THEN AIGoto(w1, id, "farm") ELSE w1, LAMBDA w2 :
    IF myArmy >= AggressionThreshold(w.ai[id].aggression)
    THEN AIGoto(w2, id, "hunt") ELSE w2)))

\* Variant: flank ends only on contact with the enemy, never on its dwell time.
AIFlank_NoDwell(w, id, e) ==
    IF e.id = 0 THEN [w EXCEPT !.ai[id].state = "hunt"]
    ELSE Then(AIMoveTo(w, id, e.x + (IF w.transform[id].x - e.x < 0 THEN 2 ELSE -2)),
              LAMBDA w1 :
         IF e.dist < 6 THEN AIGoto(w1, id, "engage") ELSE w1)

\* lines 203-227: flank
AIFlank(w, id, e) ==
    IF e.id = 0 THEN [w EXCEPT !.ai[id].state = "hunt"]
    ELSE Then(AIMoveTo(w, id, e.x + (IF w.transform[id].x - e.x < 0 THEN 2 ELSE -2)),
              LAMBDA w1 :
         IF w1.ai[id].stateTimer > 30 \/ e.dist < 6 THEN AIGoto(w1, id, "engage") ELSE w1)

\* lines 59-229: one decision of the controller of leader id
AIDecide(w, id) ==
    Then(GetArmySize(w, id), LAMBDA myArmy :
    Then(FindNearestEnemy(w, id), LAMBDA e :
    CASE w.ai[id].state = "idle" ->
             AIGoto(w, id, IF myArmy < AggressionThreshold(w.ai[id].aggression)
                           THEN "farm" ELSE "hunt")
      [] w.ai[id].state = "farm" -> AIFarm(w, id, myArmy, e)
      [] w.ai[id].state = "hunt" -> AIHunt(w, id, myArmy, e)
      [] w.ai[id].state = "engage" -> AIEngage(w, id, myArmy, e)
      [] w.ai[id].state = "retreat" -> AIRetreat(w, id, myArmy, e)
      [] w.ai[id].state = "flank" -> AIFlank(w, id, e)
      [] OTHER -> w))

\* lines 45-58: the timers of one controller, and its decision when the cooldown is up
AIStep(w, id) ==
    IF id \notin DOMAIN w.transform \/ id \notin DOMAIN w.movable \/ id \notin DOMAIN w.team
    THEN w
    ELSE Then([w EXCEPT !.ai[id].decisionCooldown = @ - 1, !.ai[id].stateTimer = @ + 1],
              LAMBDA w1 :
         IF w1.ai[id].decisionCooldown > 0 THEN w1
         ELSE Then([w1 EXCEPT !.ai[id].decisionCooldown =
                                  PersonalInterval(w1.ai[id].aggression)], LAMBDA w2 :
              Then(AIDecide(w2, id), LAMBDA w3 :
              [w3 EXCEPT !.decisions =
                  Append(@, [leaderId |-> id, aggression |-> w3.ai[id].aggression,
                             cooldown |-> w3.ai[id].decisionCooldown,
                             from |-> w2.ai[id].state, to |-> w3.ai[id].state,
                             timer |-> w2.ai[id].stateTimer,
                             after |-> w3.ai[id].stateTimer])])))

RECURSIVE AILoop(_, _)
AILoop(w, todo) ==
    IF todo = {} THEN w
    ELSE Then(AIStep(w, MinOf(todo)), LAMBDA w1 : AILoop(w1, todo \ {MinOf(todo)}))

AISystemUpdate(w) == AILoop(w, DOMAIN w.ai)

\* Variant: ShardSystem registered before MovementSystem.
Systems_ShardFirst == <<"shard", "movement", "combat", "ai", "crown">>

\* the systems in registration order (Game constructor), and World.timeScale
Systems == <<"movement", "shard", "combat", "ai", "crown">>
timeScale == 1

(***************************************************************************)
(* World.update as a function of the world it starts from.  The results of *)
(* one update at tick now, one for each outcome of the Math.random calls   *)
(* made by CombatSystem.update (scatter directions and attack staggers).   *)
(***************************************************************************)
UpdateOutcomes(w, now) ==
    Then(ShardSystemUpdate(MovementSystemUpdate([w EXCEPT !.events = <<>>, !.attacks = <<>>, !.choices = <<>>, !.decisions = <<>>,
                                   !.shardDrops = <<>>])), LAMBDA w2 :
        {FlushDestroyed(CrownSystemUpdate(AISystemUpdate(
            CombatSystemUpdate(w2, now, scat, stag)))) :
                scat \in [Breaking(w2) -> {0, 1}], stag \in [Attackers(w2, now) -> {0, 1}]})

(***************************************************************************)
(* EventBus.  An event is queued with its emission number; the handlers    *)
(* are the subscribers the bus is exercised with: "log" emits nothing,     *)
(* "relay" emits B then C from inside the handler, "chain" emits C, and    *)
(* "quit" unsubscribes itself from A (the function EventBus.on returned).  *)
(***************************************************************************)
EventTypes == {"A", "B", "C"}

EmitOp(type) == [op |-> "emit", type |-> type, handler |-> ""]
OffOp(type, handler) == [op |-> "off", type |-> type, handler |-> handler]
ThrowOp == [op |-> "throw", type |-> "", handler |-> ""]

Script(handler) ==
    CASE handler = "relay" -> <<EmitOp("B"), EmitOp("C")>>
      [] handler = "chain" -> <<EmitOp("C")>>
      [] handler = "quit" -> <<OffOp("A", "quit")>>
      [] handler = "fail" -> <<ThrowOp>>
      [] OTHER -> <<>>

\* the subscriptions made: relay listens to A and chain to B, so no event is
\* re-emitted for ever
Subscribable == {<<"A", "relay">>, <<"A", "log">>, <<"B", "chain">>, <<"B", "log">>,
                 <<"C", "log">>}

\* EventBus.on (once FALSE) and EventBus.once (once TRUE)
BusOn(b, type, handler, once) ==
    [b EXCEPT !.listeners[type] = Append(@, [handler |-> handler, once |-> once])]

\* EventBus.off: the first subscription of the handler is removed
BusOff(b, type, handler) ==
    IF \E i \in DOMAIN b.listeners[type] : b.listeners[type][i].handler = handler
    THEN [b EXCEPT !.listeners[type] =
            RemoveAt(@, MinOf({i \in DOMAIN @ : @[i].handler = handler}))]
    ELSE b

RECURSIVE BusEmit(_, _)
RECURSIVE BusDrain(_)
RECURSIVE BusDeliver(_, _, _, _)
RECURSIVE RunScript(_, _, _)
RECURSIVE RemoveIndices(_, _, _)

\* flush, lines 60-62: the once subscriptions are spliced out, last index first
\* (a splice past the end of the list removes nothing)
RemoveIndices(list, toRemove, k) ==
    IF k = 0 THEN list
    ELSE RemoveIndices(IF toRemove[k] <= Len(list) THEN RemoveAt(list, toRemove[k]) ELSE list,
                       toRemove, k - 1)

\* the body of a handler: its calls on the bus, in order, up to its throw if any
RunScript(b, script, k) ==
    IF k > Len(script) \/ b.thrown THEN b
    ELSE RunScript(CASE script[k].op = "emit" -> BusEmit(b, script[k].type)
                     [] script[k].op = "off" -> BusOff(b, script[k].type, script[k].handler)
                     [] OTHER -> [b EXCEPT !.thrown = TRUE],
                   script, k + 1)

\* flush, line 57: list[i].handler(event.payload)
Invoke(b, handler, event) ==
    Then([b EXCEPT !.delivered = Append(@, [seq |-> event.seq, type |-> event.type,
                                            handler |-> handler]),
                   !.depth = @ + 1,
                   !.maxDepth = Max(@, b.depth + 1)], LAMBDA b1 :
    Then(RunScript(b1, Script(handler), 1), LAMBDA b2 :
    [b2 EXCEPT !.depth = @ - 1]))

\* flush, lines 56-62: the handler loop over the listener list of the event's type.
\* The list is the live array: after the handler has returned, list[i] is read again
\* (line 58); if the handler shortened the list to fewer than i entries, list[i] is
\* undefined and the read throws: flush is left with processing still set.  An
\* exception thrown by the handler itself leaves flush at line 57 in the same way.
BusDeliver(b, event, i, toRemove) ==
    IF i > Len(b.listeners[event.type])
    THEN BusDrain([b EXCEPT !.listeners[event.type] =
                               RemoveIndices(@, toRemove, Len(toRemove))])
    ELSE Then(Invoke(b, b.listeners[event.type][i].handler, event), LAMBDA b1 :
         IF b1.thrown \/ i > Len(b1.listeners[event.type]) THEN b1
         ELSE BusDeliver(b1, event, i + 1,
                         IF b1.listeners[event.type][i].once
                         THEN Append(toRemove, i) ELSE toRemove))

\* flush, lines 51-65: the while loop over the queue
BusDrain(b) ==
    IF b.queue = <<>> THEN [b EXCEPT !.processing = FALSE]
    ELSE BusDeliver([b EXCEPT !.queue = Tail(@)], Head(b.queue), 1, <<>>)

\* EventBus.flush
BusFlush(b) == BusDrain([b EXCEPT !.processing = TRUE])

\* Variant: emit that flushes even while a flush is in progress.
BusEmit_Reentrant(b, type) ==
    BusFlush([b EXCEPT !.queue = Append(@, [type |-> type, seq |-> b.emitted + 1]),
                       !.emitted = @ + 1])

\* EventBus.emit
BusEmit(b, type) ==
    Then([b EXCEPT !.queue = Append(@, [type |-> type, seq |-> b.emitted + 1]),
                   !.emitted = @ + 1], LAMBDA b1 :
    IF ~b1.processing THEN BusFlush(b1) ELSE b1)

(***************************************************************************)
(* Snapshots.  World.serialize copies the counters, the alive set and the  *)
(* entries of every component store; the snapshot is taken as a value (as  *)
(* it is once written to and read back from a save file).  The seed field  *)
(* is left out: deserialize never reads it.  The systems' own fields       *)
(* (ShardSystem.pendingRespawns, CombatSystem.lastChargeHit) are not part  *)
(* of a snapshot, and deserialize leaves them, and the pending-destroy     *)
(* queue, as they are in the world it loads into.                          *)
(***************************************************************************)
SNAPSHOT_VERSION == 1

Serialize(w, t, mt) ==
    [version |-> SNAPSHOT_VERSION, rngState |-> w.rng, tick |-> t, matchTime |-> mt,
     nextEntityId |-> w.nextEntityId, aliveEntities |-> w.alive,
     components |-> [transform |-> w.transform, health |-> w.health, team |-> w.team,
                     unit |-> w.unit, leader |-> w.leader, member |-> w.member,
                     movable |-> w.movable, combatant |-> w.combatant,
                     cohesion |-> w.cohesion, shard |-> w.shard, crown |-> w.crown,
                     bearer |-> w.bearer, ai |-> w.ai]]

\* World.deserialize into the world w: the loaded world with its tick and match time
Deserialize(w, snap) ==
    [tick |-> snap.tick, matchTime |-> snap.matchTime,
     sim |-> [w EXCEPT !.rng = snap.rngState, !.nextEntityId = snap.nextEntityId,
                       !.alive = snap.aliveEntities,
                       !.transform = snap.components.transform,
                       !.health = snap.components.health,
                       !.team = snap.components.team,
                       !.unit = snap.components.unit,
                       !.leader = snap.components.leader,
                       !.member = snap.components.member,
                       !.movable = snap.components.movable,
                       !.combatant = snap.components.combatant,
                       !.cohesion = snap.components.cohesion,
                       !.shard = snap.components.shard,
                       !.crown = snap.components.crown,
                       !.bearer = snap.components.bearer,
                       !.ai = snap.components.ai]]

(***************************************************************************)
(* Initial worlds, built with Game.spawnLeader, Game.spawnWarrior and      *)
(* ShardSystem.createShard.  A world is taken StartTick ticks into a       *)
(* match: attack cooldowns have elapsed, some units are wounded, a leader  *)
(* may already have fallen (its crown and its leaderless warriors remain). *)
(***************************************************************************)
StartTick == 200
EarlyTick == 20                 \* a world taken one second into the match
LowHp == 60                     \* 6 HP: one hit from death
WoundedHp == 200                \* 20 HP: two charge hits from death

EmptyWorld ==
    [nextEntityId |-> 1, alive |-> {}, pendingDestroy |-> <<>>, rng |-> 0,
     transform |-> Empty, health |-> Empty, team |-> Empty, unit |-> Empty,
     leader |-> Empty, member |-> Empty, movable |-> Empty, combatant |-> Empty,
     cohesion |-> Empty, shard |-> Empty, crown |-> Empty, bearer |-> Empty,
     ai |-> Empty,
     pendingRespawns |-> <<>>, lastChargeHit |-> Empty, events |-> <<>>, attacks |-> <<>>,
     choices |-> <<>>, decisions |-> <<>>, shardDrops |-> <<>>,
     deathShards |-> 0]

\* Game.spawnLeader
SpawnLeader(w, teamId, x, rot, hp) ==
    LET eid == w.nextEntityId IN
    [CreateEntity(w) EXCEPT
        !.transform = Put(@, eid, [x |-> x, rot |-> rot]),
        !.team = Put(@, eid, [teamId |-> teamId]),
        !.health = Put(@, eid, [current |-> hp, max |-> LEADER_HP]),
        !.leader = Put(@, eid, [teamId |-> teamId, formation |-> "column"]),
        !.movable = Put(@, eid, [targetPosition |-> <<>>]),
        !.bearer = Put(@, eid, [crownsCollected |-> 0, glowIntensity |-> 0])]

\* Game.spawnWarrior (leaderId 0: a warrior whose leader has fallen)
SpawnStartWarrior(w, leaderId, teamId, x, index, hp) ==
    LET eid == w.nextEntityId IN
    [CreateEntity(w) EXCEPT
        !.transform = Put(@, eid, [x |-> x, rot |-> 0]),
        !.team = Put(@, eid, [teamId |-> teamId]),
        !.unit = Put(@, eid, [attackDamage |-> MilitiaAttackDamage,
                              attackRange |-> MilitiaAttackRange,
                              attackCooldown |-> MilitiaAttackCooldown,
                              lastAttackTick |-> 0]),
        !.health = Put(@, eid, [current |-> hp, max |-> MilitiaHp]),
        !.member = Put(@, eid, [leaderId |-> leaderId, indexInFormation |-> index,
                                teamId |-> teamId]),
        !.movable = Put(@, eid, [targetPosition |-> <<>>]),
        !.combatant = Put(@, eid, [inCombat |-> FALSE, targetId |-> 0,
                                   engagementRange |-> StartEngagementRange]),
        !.cohesion = Put(@, eid, [current |-> MilitiaCohesion, max |-> MilitiaCohesion,
                                  broken |-> FALSE, scatterTimer |-> 0,
                                  scatterDir |-> <<>>])]

\* a crown dropped earlier by the leader of teamId (CrownSystem.handleLeaderDeath)
DroppedCrown(w, teamId, x) ==
    LET eid == w.nextEntityId IN
    [CreateEntity(w) EXCEPT
        !.transform = Put(@, eid, [x |-> x, rot |-> 0]),
        !.crown = Put(@, eid, [originalTeamId |-> teamId, dropped |-> TRUE, dropTimer |-> 1])]

L(teamId, x, rot, hp) == [kind |-> "leader", teamId |-> teamId, x |-> x, rot |-> rot,
                          hp |-> hp, leaderId |-> 0, index |-> 0]
W(leaderId, teamId, x, index, hp) == [kind |-> "warrior", teamId |-> teamId, x |-> x, rot |-> 0,
                                      hp |-> hp, leaderId |-> leaderId, index |-> index]
S(x) == [kind |-> "shard", teamId |-> 0, x |-> x, rot |-> 0, hp |-> 0, leaderId |-> 0,
         index |-> 0]
C(teamId, x) == [kind |-> "crown", teamId |-> teamId, x |-> x, rot |-> 0, hp |-> 0,
                 leaderId |-> 0, index |-> 0]
R(x, timer) == [kind |-> "respawn", teamId |-> 0, x |-> x, rot |-> 0, hp |-> timer,
                leaderId |-> 0, index |-> 0]

\* Game.spawnLeader, lines 261-269: the AI controller of an already spawned leader,
\* some decisions into the match
A(eid, state, stateTimer, decisionCooldown, aggression) ==
    [kind |-> "ai", leaderId |-> eid,
     controller |-> [state |-> state, targetEntityId |-> 0, stateTimer |-> stateTimer,
                     decisionCooldown |-> decisionCooldown, aggression |-> aggression]]

\* the morale an already spawned warrior has been drained to so far
M(eid, current) == [kind |-> "morale", teamId |-> 0, x |-> 0, rot |-> 0, hp |-> current,
                    leaderId |-> eid, index |-> 0]

RECURSIVE Build(_, _, _)
Build(w, cmds, i) ==
    IF i > Len(cmds) THEN w
    ELSE LET c == cmds[i]
             w1 == CASE c.kind = "leader" -> SpawnLeader(w, c.teamId, c.x, c.rot, c.hp)
                     [] c.kind = "warrior" ->
                            SpawnStartWarrior(w, c.leaderId, c.teamId, c.x, c.index, c.hp)
                     [] c.kind = "shard" -> CreateShard(w, c.x)
                     [] c.kind = "crown" -> DroppedCrown(w, c.teamId, c.x)
                     [] c.kind = "ai" -> [w EXCEPT !.ai = Put(@, c.leaderId, c.controller)]
                     [] c.kind = "morale" ->
                            [w EXCEPT !.cohesion[c.leaderId].current = c.hp]
                     [] c.kind = "respawn" ->
                            [w EXCEPT !.pendingRespawns = Append(@, [pos |-> c.x, timer |-> c.hp])]
         IN  Build(w1, cmds, i + 1)

\* leader 1 (team 1, army at the cap) against the wounded leader 4 (team 2)
Duel ==
    << L(1, 3, 0, LEADER_HP), W(1, 1, 0, 0, MilitiaHp), W(1, 1, 0, 1, MilitiaHp),
       L(2, 0, 0, LowHp), W(4, 2, 9, 0, MilitiaHp) >>

\* wounded warriors of two teams in contact; leader 1 one regeneration step from full
Skirmish ==
    << L(1, 1, 0, LEADER_HP - 1), W(1, 1, 0, 0, LowHp),
       L(2, 0, 1, LEADER_HP), W(3, 2, 1, 0, LowHp), W(3, 2, 0, 1, MilitiaHp) >>

\* two leaders without army next to one shard; one respawn about to expire
ShardRace ==
    << L(1, 0, 0, LEADER_HP), L(2, 2, 0, LEADER_HP), S(1), R(5, 2) >>

\* team 3 has fallen earlier (crown 7 and the leaderless warrior 8 remain next to
\* leader 1); the wounded leader 4 (team 2) is in contact with a warrior of team 1
Triple ==
    << L(1, 3, 0, LEADER_HP), W(1, 1, 0, 0, MilitiaHp), W(1, 1, 9, 1, LowHp),
       L(2, 0, 0, LowHp), W(4, 2, -9, 0, MilitiaHp), W(4, 2, -9, 1, MilitiaHp),
       C(3, 5), W(0, 3, 8, 0, MilitiaHp) >>

\* unhurt warriors of two teams in contact; the morale of warrior 4 is one point
\* less than a flank penalty, that of warrior 5 has just been drained to 0
Rout ==
    << L(1, 1, 0, LEADER_HP), W(1, 1, 0, 0, MilitiaHp),
       L(2, 0, 1, LEADER_HP), W(3, 2, 1, 0, MilitiaHp), W(3, 2, 0, 1, MilitiaHp),
       M(4, COHESION_FLANK_PENALTY - CohScale), M(5, 0) >>

\* warriors of two teams in contact, none of which has scored a charge hit; the
\* one of team 1 survives one hit of the two it faces, not both
Opening ==
    << L(1, 1, 0, LEADER_HP), W(1, 1, 0, 0, WoundedHp),
       L(2, 0, 1, LEADER_HP), W(3, 2, 1, 0, MilitiaHp), W(3, 2, 0, 1, MilitiaHp) >>

\* a wounded warrior on the map bound, in contact with an enemy warrior
Brink ==
    << L(1, MapHalf, 1, LEADER_HP), W(1, 1, MapHalf, 0, LowHp),
       L(2, MapHalf - 1, 0, LEADER_HP), W(3, 2, MapHalf - 1, 0, MilitiaHp) >>

\* a leader whose army is at the cap, next to a shard
Glut ==
    << L(1, 0, 0, LEADER_HP), W(1, 1, 0, 0, MilitiaHp), W(1, 1, 0, 1, MilitiaHp), S(0) >>

\* team 3 has fallen earlier; the wounded leader 1 (team 2) stands on its crown, in
\* contact with a warrior of team 1, the leaderless warrior 5 of team 3 out of reach
Usurper ==
    << L(2, 0, 0, LowHp), L(1, 3, 0, LEADER_HP), W(2, 1, 0, 0, MilitiaHp),
       C(3, 0), W(0, 3, 9, 0, MilitiaHp) >>

\* the last leader, within pickup range of the crowns of the two fallen teams
Spoils == << L(1, 0, 0, LEADER_HP), C(2, 0), C(3, 0) >>

Scenarios == {Duel, Skirmish, ShardRace, Triple, Rout, Opening, Brink, Glut, Usurper, Spoils}
Seeds == {0, 3}
TargetXs == {0, 3}

InitFrom(scenarios, seeds, firstTick) ==
    /\ pc = "idle"
    /\ tick = firstTick
    /\ ticksRun = 0
    /\ warriorDeaths = 0
    /\ leaderDeaths = 0
    /\ fallen = {}
    /\ healed = {}
    /\ matchTime = firstTick
    /\ paused = FALSE
    /\ updateCalls = 0
    /\ ran = <<>>
    /\ brokeAt = Empty
    /\ loads = 0
    /\ loadedVersion = 0
    /\ deathLog = <<>>
    /\ matchEnds = 0
    /\ crownLog = <<>>
    /\ listeners = [type \in EventTypes |-> <<>>]
    /\ queue = <<>>
    /\ processing = FALSE
    /\ delivered = <<>>
    /\ emitted = 0
    /\ maxDepth = 0
    /\ \E sc \in scenarios, seed \in seeds :
          LET w == [Build(EmptyWorld, sc, 1) EXCEPT !.rng = seed] IN
          /\ nextEntityId = w.nextEntityId
          /\ alive = w.alive
          /\ pendingDestroy = w.pendingDestroy
          /\ rng = w.rng
          /\ transform = w.transform
          /\ health = w.health
          /\ team = w.team
          /\ unit = w.unit
          /\ leader = w.leader
          /\ member = w.member
          /\ movable = w.movable
          /\ combatant = w.combatant
          /\ cohesion = w.cohesion
          /\ shard = w.shard
          /\ crown = w.crown
          /\ bearer = w.bearer
          /\ ai = w.ai
          /\ pendingRespawns = w.pendingRespawns
          /\ lastChargeHit = w.lastChargeHit
          /\ events = w.events
          /\ attacks = w.attacks
          /\ choices = w.choices
          /\ decisions = w.decisions
          /\ shardDrops = w.shardDrops
          /\ deathShards = w.deathShards

Init == InitFrom(Scenarios, Seeds, StartTick)

(***************************************************************************)
(* Actions                                                                 *)
(***************************************************************************)
\* the mutation surface: a leader's movement target is set between two updates
\* (InputManager.updateCursorTarget; the same field AISystem writes)
SetMovementTarget(l, x) ==
    /\ pc = "idle"
    /\ l \in DOMAIN leader
    /\ l \in DOMAIN movable
    /\ l \notin DOMAIN ai
    /\ movable[l].targetPosition # <<x>>
    /\ movable' = [movable EXCEPT ![l].targetPosition = <<x>>]
    /\ UNCHANGED <<pc, tick, ticksRun, nextEntityId, alive, pendingDestroy, rng, transform,
                   health, team, unit, leader, member, combatant, cohesion, shard,
                   crown, bearer, ai, pendingRespawns, lastChargeHit, events, attacks,
                   choices, decisions, shardDrops,
                   deathLog, matchEnds, crownLog, deathShards,
                   warriorDeaths, leaderDeaths, fallen, healed, matchTime, paused,
                   updateCalls, ran, brokeAt, loads, loadedVersion>>
    /\ UNCHANGED busVars

\* the host pauses or resumes the simulation between two updates (World.paused is
\* a public field)
SetPaused(b) ==
    /\ pc = "idle"
    /\ paused # b
    /\ paused' = b
    /\ UNCHANGED <<pc, tick, ticksRun, nextEntityId, alive, pendingDestroy, rng, transform,
                   health, team, unit, leader, member, movable, combatant, cohesion, shard,
                   crown, bearer, ai, pendingRespawns, lastChargeHit, events, attacks,
                   choices, decisions, shardDrops,
                   deathLog, matchEnds, crownLog, deathShards,
                   warriorDeaths, leaderDeaths, fallen, healed, matchTime,
                   updateCalls, ran, brokeAt, loads, loadedVersion>>
    /\ UNCHANGED busVars

\* World.update, line 104: a paused world returns at once
\* Variant: the update runs whether or not the world is paused.
UpdateSkipped_Never(isPaused) == FALSE

UpdateSkipped(isPaused) == isPaused

\* World.update, lines 103-107: unless the world is paused the tick counter and
\* the match time advance, then the systems run
BeginUpdate ==
    /\ pc = "idle"
    /\ updateCalls' = updateCalls + 1
    /\ IF UpdateSkipped(paused)
       THEN /\ updateCalls - ticksRun < MaxPausedCalls
            /\ UNCHANGED <<pc, tick, matchTime, ticksRun, events, attacks, choices, decisions,
                           shardDrops, fallen,
                           healed, ran>>
       ELSE /\ ticksRun < MaxTicks
            /\ tick' = tick + 1
            /\ matchTime' = matchTime + timeScale
            /\ ticksRun' = ticksRun + 1
            /\ events' = <<>>
            /\ attacks' = <<>>
            /\ choices' = <<>>
            /\ decisions' = <<>>
            /\ shardDrops' = <<>>
            /\ fallen' = {}
            /\ healed' = {}
            /\ ran' = <<>>
            /\ pc' = Systems[1]
    /\ UNCHANGED <<nextEntityId, alive, pendingDestroy, rng, transform, health, team, unit,
                   leader, member, movable, combatant, cohesion, shard, crown, bearer, ai,
                   pendingRespawns, lastChargeHit, deathShards, warriorDeaths, leaderDeaths,
                   paused, brokeAt, loads, loadedVersion, deathLog,
                   matchEnds, crownLog>>
    /\ UNCHANGED busVars

\* World.update, lines 108-111: what runs once the system (or step) p has returned
Following(p) ==
    IF \E i \in 1..(Len(Systems) - 1) : Systems[i] = p
    THEN Systems[(CHOOSE i \in 1..(Len(Systems) - 1) : Systems[i] = p) + 1]
    ELSE IF p = Systems[Len(Systems)] THEN "flush" ELSE "idle"

RunMovement ==
    /\ pc = "movement"
    /\ ran' = Append(ran, pc)
    /\ Commit(MovementSystemUpdate(Sim))
    /\ pc' = Following(pc)
    /\ UNCHANGED <<tick, ticksRun, warriorDeaths, leaderDeaths, fallen, healed, matchTime,
                   paused, updateCalls, brokeAt, loads, loadedVersion, deathLog,
                   matchEnds, crownLog>>
    /\ UNCHANGED busVars

RunShard ==
    /\ pc = "shard"
    /\ ran' = Append(ran, pc)
    /\ Commit(ShardSystemUpdate(Sim))
    /\ pc' = Following(pc)
    /\ UNCHANGED <<tick, ticksRun, warriorDeaths, leaderDeaths, fallen, healed, matchTime,
                   paused, updateCalls, brokeAt, loads, loadedVersion, deathLog,
                   matchEnds, crownLog>>
    /\ UNCHANGED busVars

\* the entities whose health falls to <= 0 in the step from h to h2
Fallen(h, h2) == {e \in DOMAIN h : h[e].current > 0 /\ e \in DOMAIN h2 /\ h2[e].current <= 0}

RunCombat ==
    /\ pc = "combat"
    /\ \E scat \in [Breaking(Sim) -> {0, 1}], stag \in [Attackers(Sim, tick) -> {0, 1}] :
        \E w \in {CombatSystemUpdate(Sim, tick, scat, stag)} :
          /\ Commit(w)
          /\ leaderDeaths' = leaderDeaths + Cardinality(Fallen(health, w.health) \cap DOMAIN leader)
          /\ warriorDeaths' = warriorDeaths + Cardinality(Fallen(health, w.health) \ DOMAIN leader)
          /\ fallen' = {[id |-> e, wasLeader |-> e \in DOMAIN leader,
                         teamId |-> IF e \in DOMAIN team THEN team[e].teamId ELSE 0] :
                            e \in Fallen(health, w.health)}
          /\ healed' = {e \in DOMAIN health :
                            e \in DOMAIN w.health /\ w.health[e].current > health[e].current}
          /\ brokeAt' = [e \in DOMAIN brokeAt \cup Breaking(Sim) |->
                            IF e \in Breaking(Sim) THEN tick ELSE brokeAt[e]]
          /\ deathLog' = deathLog \o SelectSeq(SubSeq(w.events, Len(events) + 1, Len(w.events)),
                                                LAMBDA e : e.type \in {"UnitDied", "LeaderKilled"})
    /\ ran' = Append(ran, pc)
    /\ pc' = Following(pc)
    /\ UNCHANGED <<tick, ticksRun, matchTime, paused, updateCalls, loads, loadedVersion,
                   matchEnds, crownLog>>
    /\ UNCHANGED busVars

RunAI ==
    /\ pc = "ai"
    /\ ran' = Append(ran, pc)
    /\ Commit(AISystemUpdate(Sim))
    /\ pc' = Following(pc)
    /\ UNCHANGED <<tick, ticksRun, warriorDeaths, leaderDeaths, fallen, healed, matchTime,
                   paused, updateCalls, brokeAt, loads, loadedVersion, deathLog,
                   matchEnds, crownLog>>
    /\ UNCHANGED busVars

\* the pickups among the events evs, each with the state the pickup was made in
PickUps(evs) ==
    Then(SelectSeq(evs, LAMBDA e : e.type = "CrownPickedUp"), LAMBDA picks :
    [k \in 1..Len(picks) |->
        [tick |-> tick, crownId |-> picks[k].crownId, collectorId |-> picks[k].collectorId,
         collectorTeam |-> team[picks[k].collectorId].teamId,
         originalTeamId |-> crown[picks[k].crownId].originalTeamId,
         at |-> transform[picks[k].crownId].x]])

RunCrown ==
    /\ pc = "crown"
    /\ ran' = Append(ran, pc)
    /\ Commit(CrownSystemUpdate(Sim))
    /\ matchEnds' = matchEnds + Cardinality({i \in DOMAIN events' :
                                                 i > Len(events) /\ events'[i].type = "MatchEnded"})
    /\ crownLog' = crownLog \o PickUps(events')
    /\ pc' = Following(pc)
    /\ UNCHANGED <<tick, ticksRun, warriorDeaths, leaderDeaths, fallen, healed, matchTime,
                   paused, updateCalls, brokeAt, loads, loadedVersion, deathLog>>
    /\ UNCHANGED busVars

\* World.update, line 111: the deferred destructions are flushed after the last system
RunFlush ==
    /\ pc = "flush"
    /\ ran' = Append(ran, pc)
    /\ Commit(FlushDestroyed(Sim))
    /\ pc' = Following(pc)
    /\ UNCHANGED <<tick, ticksRun, warriorDeaths, leaderDeaths, fallen, healed, matchTime,
                   paused, updateCalls, brokeAt, loads, loadedVersion, deathLog,
                   matchEnds, crownLog>>
    /\ UNCHANGED busVars

Next ==
    \/ \E l \in DOMAIN leader, x \in TargetXs : SetMovementTarget(l, x)
    \/ \E b \in BOOLEAN : SetPaused(b)
    \/ BeginUpdate
    \/ RunMovement
    \/ RunShard
    \/ RunCombat
    \/ RunAI
    \/ RunCrown
    \/ RunFlush

Spec == Init /\ [][Next]_vars

\* the aggressive AI leader 1 (team 1, one warrior), in a given state for a given
\* time, at a given distance from the cautious AI leader 3 (team 2) and its army;
\* both controllers decide in the next update
Standoff(state, stateTimer, dist, enemyArmy) ==
    << L(1, 0, 0, LEADER_HP), W(1, 1, 0, 0, MilitiaHp), L(2, dist, 1, LEADER_HP) >>
    \o [k \in 1..enemyArmy |-> W(3, 2, dist, k - 1, MilitiaHp)]
    \o << A(1, state, stateTimer, 1, 90), A(3, "farm", 0, 1, 30) >>

\* Duel with leader 1 under an AI controller two ticks from its next decision
Regicide(state) == Duel \o << A(1, state, 0, 2, 90) >>

\* leader 1 retreating and leader 3 flanking, each at its first decision past the
\* dwell time of its state (decision intervals 16 and 14 ticks)
Withdrawal ==
    << L(1, 0, 0, LEADER_HP), W(1, 1, 0, 0, MilitiaHp), L(2, 20, 1, LEADER_HP),
       W(3, 2, 20, 0, MilitiaHp),
       A(1, "retreat", 47, 1, 90), A(3, "flank", 41, 1, 30) >>

AIScenarios ==
    {Standoff(st, t, d, 0) : st \in {"idle", "farm", "hunt", "engage", "retreat", "flank"},
                             t \in {0, 100}, d \in {5, 20, 45}}
        \cup {Standoff(st, 0, 5, 2) : st \in {"hunt", "engage"}}
        \cup {Regicide(st) : st \in {"engage", "flank"}}
        \cup {Withdrawal}

\* the same steps from worlds whose leaders are steered by AI controllers
SpecAI == InitFrom(AIScenarios, {0}, StartTick) /\ [][Next]_vars

\* the same steps from worlds taken within CHARGE_COOLDOWN ticks of the match start
SpecEarly == InitFrom({Opening, Skirmish}, Seeds, EarlyTick) /\ [][Next]_vars

(***************************************************************************)
(* Loading.  The host may call World.deserialize between two updates with  *)
(* a snapshot read from a save file: one made at the start of a match by   *)
(* this build (version 1) or by another build (any other version).         *)
(***************************************************************************)
Versions == {SNAPSHOT_VERSION, SNAPSHOT_VERSION + 1}

SavedScenarios == {Duel, ShardRace}

SaveFiles ==
    {[Serialize(Build(EmptyWorld, sc, 1), StartTick, StartTick) EXCEPT !.version = v] :
        sc \in SavedScenarios, v \in Versions}

LoadSnapshot(snap) ==
    /\ pc = "idle"
    /\ loads < MaxLoads
    /\ loads' = loads + 1
    /\ loadedVersion' = snap.version
    /\ \E r \in {Deserialize(Sim, snap)} :
          /\ Commit(r.sim)
          /\ tick' = r.tick
          /\ matchTime' = r.matchTime
    /\ fallen' = {}
    /\ healed' = {}
    /\ brokeAt' = Empty
    /\ UNCHANGED <<pc, ticksRun, warriorDeaths, leaderDeaths, paused, updateCalls, ran,
                   deathLog, matchEnds, crownLog>>
    /\ UNCHANGED busVars

NextLoad ==
    \/ Next
    \/ \E snap \in SaveFiles : LoadSnapshot(snap)

SpecLoad == Init /\ [][NextLoad]_vars

(***************************************************************************)
(* The event bus driven from outside any handler: subscriptions are made   *)
(* and dropped and events are emitted; an emit returns once the bus has    *)
(* drained its queue.                                                      *)
(***************************************************************************)
Bus ==
    [listeners |-> listeners, queue |-> queue, processing |-> processing,
     delivered |-> delivered, emitted |-> emitted, depth |-> 0, maxDepth |-> maxDepth,
     thrown |-> FALSE]

CommitBus(b) ==
    /\ listeners' = b.listeners
    /\ queue' = b.queue
    /\ processing' = b.processing
    /\ delivered' = b.delivered
    /\ emitted' = b.emitted
    /\ maxDepth' = b.maxDepth

Subscriptions == {<<type, i>> : type \in EventTypes, i \in 1..MaxSubscriptions}

Subscribe(type, handler, once) ==
    /\ Cardinality({s \in Subscriptions : s[2] \in DOMAIN listeners[s[1]]}) < MaxSubscriptions
    /\ \A i \in DOMAIN listeners[type] : listeners[type][i].handler # handler
    /\ CommitBus(BusOn(Bus, type, handler, once))
    /\ UNCHANGED worldVars

Unsubscribe(type, handler) ==
    /\ \E i \in DOMAIN listeners[type] : listeners[type][i].handler = handler
    /\ CommitBus(BusOff(Bus, type, handler))
    /\ UNCHANGED worldVars

EmitEvent(type) ==
    /\ emitted < MaxEmits
    /\ CommitBus(BusEmit(Bus, type))
    /\ UNCHANGED worldVars

NextBus ==
    \/ \E sub \in Subscribable, once \in BOOLEAN : Subscribe(sub[1], sub[2], once)
    \/ \E sub \in Subscribable : Unsubscribe(sub[1], sub[2])
    \/ \E type \in EventTypes : EmitEvent(type)

SpecBus == InitFrom({ShardRace}, {0}, StartTick) /\ [][NextBus]_vars

\* the bus with, among its subscribers, a handler that unsubscribes itself while
\* it is being delivered to
SubscribableOff == {<<"A", "quit">>, <<"A", "relay">>, <<"A", "log">>, <<"B", "log">>}

NextBusOff ==
    \/ \E sub \in SubscribableOff, once \in BOOLEAN : Subscribe(sub[1], sub[2], once)
    \/ \E sub \in SubscribableOff : Unsubscribe(sub[1], sub[2])
    \/ \E type \in EventTypes : EmitEvent(type)

SpecBusOff == InitFrom({ShardRace}, {0}, StartTick) /\ [][NextBusOff]_vars

\* the bus with, among its subscribers, a handler that throws
SubscribableFail == {<<"A", "fail">>, <<"A", "relay">>, <<"A", "log">>, <<"B", "log">>}

NextBusFail ==
    \/ \E sub \in SubscribableFail, once \in BOOLEAN : Subscribe(sub[1], sub[2], once)
    \/ \E sub \in SubscribableFail : Unsubscribe(sub[1], sub[2])
    \/ \E type \in EventTypes : EmitEvent(type)

SpecBusFail == InitFrom({ShardRace}, {0}, StartTick) /\ [][NextBusFail]_vars

(***************************************************************************)
(* Properties                                                              *)
(***************************************************************************)
EventsOf(type) == {i \in DOMAIN events : events[i].type = type}

\* C1: after any sequence of ticks the army led by any leader is at most
\* MAX_ARMY_SIZE, whatever shard collections, deaths and crown absorptions have
\* happened (at a tick boundary the stores hold living entities only).
ArmyWithinCap ==
    pc = "idle" => \A l \in DOMAIN leader : GetArmySize(Sim, l) <= MAX_ARMY_SIZE

\* C2: the shards created through the death path number one per non-leader death
\* plus CROWN_DROP_SHARDS per leader death, however the deaths coincide.
DeathEconomyNetZero ==
    deathShards = warriorDeaths * DEATH_SHARD_DROP + leaderDeaths * CROWN_DROP_SHARDS

\* a warrior and a leader fall in the same update, and their shards are on the map
DeathsCoincide ==
    /\ pc = "ai"
    /\ \E f \in fallen : f.wasLeader
    /\ \E f \in fallen : ~f.wasLeader
    /\ deathShards >= DEATH_SHARD_DROP + CROWN_DROP_SHARDS

\* C3: every shard entity is collected at most once: no two ShardCollected events
\* carry the same shard id, however many leaders are within pickup range of it.
ShardCollectedOnce ==
    \A i, j \in EventsOf("ShardCollected") :
        events[i].shardId = events[j].shardId => i = j

\* C4: at a tick boundary every entity whose health fell to <= 0 during the update
\* has been removed, a fallen leader having dropped its crown, and no entity with
\* health <= 0 is alive.
DeadRemovedByEndOfTick ==
    pc = "idle" =>
        /\ \A f \in fallen :
              /\ f.id \notin alive
              /\ f.id \notin DOMAIN health
              /\ f.wasLeader =>
                    \E i \in EventsOf("CrownDropped") : events[i].originalTeamId = f.teamId
        /\ \A e \in alive \cap DOMAIN health : health[e].current > 0

\* an update in which a warrior and a leader fell has completed
DeadRemovedReached ==
    /\ pc = "idle"
    /\ \E f \in fallen : f.wasLeader /\ f.id \notin alive
    /\ \E f \in fallen : ~f.wasLeader /\ f.id \notin alive

\* C5: every entity's Health.current is at most its Health.max; leader regeneration
\* in particular never raises a leader above its max.
HealthWithinMax ==
    \A e \in DOMAIN health : health[e].current <= health[e].max

\* a leader that was below its max has regenerated up to it
RegenReachedMax ==
    \E l \in healed \cap DOMAIN leader : health[l].current = health[l].max

\* C6: for every crown pickup, if no leader other than the collector remains
\* unkilled, the pickup emits exactly one MatchEnded (crown_victory, winner the
\* collector's team); if another leader remains it emits none.
CrownWinCondition ==
    pc = "flush" =>
        \A i \in EventsOf("CrownPickedUp") :
            LET col == events[i].collectorId
                others == {l \in (DOMAIN leader) \ {col} :
                              l \in DOMAIN health /\ health[l].current > 0}
                ended == {j \in EventsOf("MatchEnded") :
                             /\ j > i
                             /\ \A k \in (i + 1)..(j - 1) : events[k].type # "CrownPickedUp"}
            IN  IF others = {}
                THEN /\ Cardinality(ended) = 1
                     /\ \A j \in ended : /\ events[j].reason = "crown_victory"
                                         /\ events[j].winnerId = team[col].teamId
                ELSE ended = {}

\* C7: a crown dropped during an update is not picked up during the same update.
NoPickupInDropTick ==
    \A i \in EventsOf("CrownDropped"), j \in EventsOf("CrownPickedUp") :
        events[i].crownId # events[j].crownId

\* C8: a led member has its leader's team id, in WarbandMember and in Team; a
\* member that is leaderless after a step has the team id it had before the step
\* (only an absorption, which gives it a leader, changes it).
LedMemberSharesTeam ==
    \A m \in DOMAIN member :
        (member[m].leaderId # 0 /\ member[m].leaderId \in DOMAIN team) =>
            /\ member[m].teamId = team[member[m].leaderId].teamId
            /\ m \in DOMAIN team
            /\ team[m].teamId = team[member[m].leaderId].teamId

LeaderlessKeepsTeam ==
    \A m \in (DOMAIN member) \cap (DOMAIN member') :
        member'[m].leaderId = 0 =>
            /\ member'[m].teamId = member[m].teamId
            /\ m \in DOMAIN team /\ m \in DOMAIN team' /\ team'[m] = team[m]

\* C8, both parts: the invariant on led members and the step property on
\* leaderless ones.
MemberTeamConsistent == []LedMemberSharesTeam /\ [][LeaderlessKeepsTeam]_vars

\* a leader has fallen: its followers are leaderless with its team id, next to
\* members of another leader that are still led
LeaderlessWithOldTeam ==
    \E f \in fallen :
        /\ f.wasLeader
        /\ \E m \in DOMAIN member :
              member[m].leaderId = 0 /\ member[m].teamId = f.teamId /\ team[m].teamId = f.teamId
        /\ \E m \in DOMAIN member : member[m].leaderId \in DOMAIN leader

\* C9: the death of leader L creates exactly one crown at L's position (origin L's
\* team, dropped, dropTimer 0), makes exactly L's followers leaderless with their
\* team id kept and every other member unchanged, emits CrownDropped then
\* LeaderKilled, and queues L for destruction.
LeaderDeathEffects ==
    [][pc = "combat" =>
        LET dead == Fallen(health, health') \cap DOMAIN leader IN
        /\ \A l \in dead :
              LET newCrowns == {c \in (DOMAIN crown') \ (DOMAIN crown) :
                                   crown'[c].originalTeamId = team[l].teamId}
              IN  /\ Cardinality(newCrowns) = 1
                  /\ \A c \in newCrowns :
                        /\ transform'[c].x = transform[l].x
                        /\ crown'[c].dropped
                        /\ crown'[c].dropTimer = 0
                        /\ \E i \in 1..(Len(events') - 1) :
                              /\ events'[i].type = "CrownDropped"
                              /\ events'[i].crownId = c
                              /\ events'[i + 1].type = "LeaderKilled"
                              /\ events'[i + 1].leaderId = l
                  /\ \A m \in DOMAIN member :
                        member[m].leaderId = l =>
                            /\ member'[m] = [member[m] EXCEPT !.leaderId = 0]
                            /\ team'[m] = team[m]
                  /\ l \in Range(pendingDestroy')
        /\ Cardinality((DOMAIN crown') \ (DOMAIN crown)) = Cardinality(dead)
        /\ \A m \in DOMAIN member :
              member[m].leaderId \notin dead => member'[m] = member[m]
    ]_vars

\* a leader with followers has just fallen and its crown lies on the map
LeaderDeathHandled ==
    /\ pc = "ai"
    /\ \E f \in fallen :
          /\ f.wasLeader
          /\ f.id \in Range(pendingDestroy)
          /\ \E c \in DOMAIN crown : crown[c].originalTeamId = f.teamId /\ crown[c].dropTimer = 0
          /\ \E m \in DOMAIN member : member[m].leaderId = 0 /\ member[m].teamId = f.teamId

\* C10: a pickup of a crown of origin team O by a leader of team C reassigns exactly
\* the leaderless members of team O to that leader and to team C, reports their
\* number in ArmyAbsorbed.warriorsGained, leaves every other member unchanged, adds
\* exactly 1 to the collector's crownsCollected and queues the crown for destruction.
CrownPickupEffects ==
    [][pc = "crown" =>
        LET picks == {i \in (Len(events) + 1)..Len(events') : events'[i].type = "CrownPickedUp"}
            Orphans(O) == {m \in DOMAIN member :
                              member[m].leaderId = 0 /\ member[m].teamId = O}
            taken == UNION {Orphans(crown[events'[i].crownId].originalTeamId) : i \in picks}
        IN  /\ \A i \in picks :
                  LET c == events'[i].crownId
                      l == events'[i].collectorId
                      O == crown[c].originalTeamId
                  IN  /\ \A m \in Orphans(O) :
                            /\ member'[m].leaderId = l
                            /\ member'[m].teamId = team[l].teamId
                            /\ team'[m].teamId = team[l].teamId
                      /\ events'[i + 1].type = "ArmyAbsorbed"
                      /\ events'[i + 1].absorberId = l
                      /\ events'[i + 1].warriorsGained = Cardinality(Orphans(O))
                      /\ c \in Range(pendingDestroy')
            /\ \A m \in (DOMAIN member) \ taken :
                  member'[m] = member[m] /\ team'[m] = team[m]
            /\ \A l \in DOMAIN bearer :
                  bearer'[l].crownsCollected =
                      bearer[l].crownsCollected
                          + Cardinality({i \in picks : events'[i].collectorId = l})
    ]_vars

\* a pickup has absorbed warriors while leaderless warriors of another team remain
AbsorbedSomeNotAll ==
    /\ pc = "flush"
    /\ \E i \in EventsOf("ArmyAbsorbed") :
          /\ events[i].warriorsGained >= 1
          /\ \E m \in DOMAIN member :
                member[m].leaderId = events[i].absorberId
                    /\ team[m].teamId = team[events[i].absorberId].teamId
          /\ \E m \in DOMAIN member :
                member[m].leaderId = 0 /\ member[m].teamId # events[i].absorbedTeamId


\* C11: two simulation instances that are in the same state between two updates
\* (same seed, same entities, same inputs so far) and run the next update are in
\* the same state after it: one update has exactly one possible result.
SameSeedSameState ==
    pc = "idle" => Cardinality(UpdateOutcomes(Sim, tick + 1)) = 1


\* C12: the world restored from serialize(W) in a fresh simulation (new World, new
\* systems) and W itself, advanced by the same update, end in the same entity and
\* component state (compared for every outcome of the Math.random draws).
SnapshotRoundTrip ==
    pc = "idle" =>
        \E r \in {Deserialize(EmptyWorld, Serialize(Sim, tick, matchTime))} :
            {Serialize(o, r.tick + 1, r.matchTime + timeScale) :
                    o \in UpdateOutcomes(r.sim, r.tick + 1)}
                = {Serialize(o, tick + 1, matchTime + timeScale) :
                    o \in UpdateOutcomes(Sim, tick + 1)}


\* C13: a deserialize call given a snapshot whose version is not the supported one
\* leaves tick, matchTime, the RNG state, the next-entity-id counter, the alive set
\* and every component store as they were.
LoadAllOrNothing ==
    [][(loads' # loads /\ loadedVersion' # SNAPSHOT_VERSION)
          => UNCHANGED <<tick, matchTime, rng, nextEntityId, alive, transform, health,
                         team, unit, leader, member, movable, combatant, cohesion,
                         shard, crown, bearer>>]_vars


\* C14: an entity whose morale is driven from above 0 to 0 by CombatSystem.update is
\* broken, with its scatter countdown running, when that update returns.
BrokenInSameTick ==
    [][pc = "combat" =>
          \A e \in DOMAIN cohesion \cap DOMAIN cohesion' :
              (cohesion[e].current > 0 /\ cohesion'[e].current <= 0)
                  => (cohesion'[e].broken /\ cohesion'[e].scatterTimer > 0)]_vars


\* C15: an entity that broke at tick T is broken at the end of the ticks T to
\* T + SCATTER_DURATION - 1 and not broken at the end of tick T + SCATTER_DURATION;
\* the morale loop that ends the scatter sets its morale to exactly half of its max.
ScatterLifecycle ==
    /\ pc \in {"ai", "crown", "flush", "idle"} =>
          \A e \in DOMAIN brokeAt \cap DOMAIN cohesion :
              cohesion[e].broken <=> (tick - brokeAt[e] < SCATTER_DURATION)
    /\ pc = "combat" =>
          \A scat \in [Breaking(Sim) -> {0, 1}] :
              \A e \in DOMAIN cohesion :
                  (cohesion[e].broken /\ ~MoraleLoop(Sim, scat).cohesion[e].broken)
                      => 2 * MoraleLoop(Sim, scat).cohesion[e].current = cohesion[e].max

\* an entity that broke SCATTER_DURATION ticks ago has just recovered
ScatterEnded ==
    /\ pc = "ai"
    /\ \E e \in DOMAIN brokeAt \cap DOMAIN cohesion :
          /\ ~cohesion[e].broken
          /\ tick - brokeAt[e] = SCATTER_DURATION


\* C16: morale stays within 0..max; an entity turns broken only in an update that
\* finds its morale at or below 0; the morale of an entity that is broken before
\* and after an update is not changed by that update.
MoraleRange ==
    \A e \in DOMAIN cohesion : 0 <= cohesion[e].current /\ cohesion[e].current <= cohesion[e].max

MoraleStep ==
    pc = "combat" =>
        \A e \in DOMAIN cohesion \cap DOMAIN cohesion' :
            /\ (~cohesion[e].broken /\ cohesion'[e].broken) => cohesion[e].current <= 0
            /\ (cohesion[e].broken /\ cohesion'[e].broken)
                  => cohesion'[e].current = cohesion[e].current

MoraleInvariant == []MoraleRange /\ [][MoraleStep]_vars

\* a unit that broke at an earlier tick has gone through an update, out of combat
\* and below its max (where regeneration applies to an unbroken unit), still broken
BrokenUnitFrozen ==
    /\ pc = "ai"
    /\ \E e \in DOMAIN brokeAt \cap DOMAIN cohesion :
          /\ cohesion[e].broken
          /\ brokeAt[e] < tick
          /\ e \in DOMAIN combatant /\ ~combatant[e].inCombat
          /\ cohesion[e].current < cohesion[e].max


\* C17: an entity queued by destroyEntity stays alive, and keeps every component
\* it has, through every system that runs later in the tick; the flush removes
\* it from the alive set and from every component store, and empties the queue.
StoreDomains ==
    <<DOMAIN transform, DOMAIN health, DOMAIN team, DOMAIN unit, DOMAIN leader,
      DOMAIN member, DOMAIN movable, DOMAIN combatant, DOMAIN cohesion, DOMAIN shard,
      DOMAIN crown, DOMAIN bearer>>

QueuedStillAlive ==
    /\ \A id \in Range(pendingDestroy) : id \in alive
    /\ pc = "idle" => pendingDestroy = <<>>

QueuedKeepsComponents ==
    pc \in {"movement", "shard", "combat", "ai", "crown"} =>
        \A id \in Range(pendingDestroy) :
            /\ id \in Range(pendingDestroy')
            /\ \A i \in DOMAIN StoreDomains : id \in StoreDomains[i] => id \in StoreDomains'[i]

FlushRemoves ==
    pc = "flush" =>
        \A id \in Range(pendingDestroy) :
            /\ id \notin alive'
            /\ \A i \in DOMAIN StoreDomains : id \notin StoreDomains'[i]

DeferredDestruction ==
    []QueuedStillAlive /\ [][QueuedKeepsComponents /\ FlushRemoves]_vars

\* a shard queued for destruction by ShardSystem is still alive, with its
\* components, while CrownSystem is about to run
QueuedSeenByLaterSystem ==
    /\ pc = "crown"
    /\ \E id \in Range(pendingDestroy) : id \in alive /\ id \in DOMAIN shard


\* C18: an update that runs adds exactly 1 to tick (and tick changes at no other
\* step), invokes Movement, Shard, Combat, AI and Crown once each in that order,
\* and flushes the deferred destructions only after Crown has returned.
UpdateOrder == <<"movement", "shard", "combat", "ai", "crown", "flush">>

RanInOrder ==
    /\ Len(ran) <= Len(UpdateOrder)
    /\ \A i \in DOMAIN ran : ran[i] = UpdateOrder[i]
    /\ (pc = "idle" /\ ticksRun > 0) => ran = UpdateOrder
    /\ pc # "idle" => Len(ran) < Len(UpdateOrder) /\ pc = UpdateOrder[Len(ran) + 1]

TickAndFlushStep ==
    /\ (pc = "idle" /\ pc' # "idle") => (tick' = tick + 1 /\ ran' = <<>>)
    /\ tick' # tick => (pc = "idle" /\ pc' # "idle")
    /\ ran' # ran => (ran' = <<>> \/ ran' = Append(ran, pc))
    /\ (~(alive \subseteq alive') \/ (pendingDestroy # <<>> /\ pendingDestroy' = <<>>))
          => ran = SubSeq(UpdateOrder, 1, 5)

UpdateRunsSystemsInOrder == []RanInOrder /\ [][TickAndFlushStep]_vars

\* a second update has run to its end and its flush removed an entity
SecondUpdateFlushed ==
    /\ pc = "idle"
    /\ ticksRun = 2
    /\ ran = UpdateOrder
    /\ tick = StartTick + 2
    /\ \E id \in 1..(nextEntityId - 1) : id \notin alive


\* C19: a World.update call made while the world is paused changes neither tick,
\* matchTime, the alive set, any component store nor the pending-destroy queue,
\* and invokes no system.
PausedUpdateIsNoOp ==
    [][(updateCalls' # updateCalls /\ paused)
          => UNCHANGED <<pc, ran, tick, matchTime, alive, pendingDestroy, transform,
                         health, team, unit, leader, member, movable, combatant,
                         cohesion, shard, crown, bearer>>]_vars

\* update has been called on a world paused after its first tick
PausedUpdateCalled ==
    /\ paused
    /\ ticksRun >= 1
    /\ updateCalls = ticksRun + 1
    /\ tick = StartTick + ticksRun


\* C20: handlers are invoked in the order their events were emitted; an event
\* emitted inside a handler is delivered only after the remaining handlers of the
\* event being delivered (no handler runs inside another); and when an emit made
\* from outside a handler returns, the queue is empty.
BusFifo ==
    /\ queue = <<>>
    /\ ~processing
    /\ \A i, j \in DOMAIN delivered : i < j => delivered[i].seq <= delivered[j].seq
    /\ maxDepth <= 1

\* relay emitted B while A was being delivered: A's next handler ran first, then
\* the handler of B
NestedEmitDelivered ==
    \E i, j \in DOMAIN delivered :
        /\ i + 1 < j
        /\ delivered[i].handler = "relay"
        /\ delivered[i + 1].seq = delivered[i].seq
        /\ delivered[j].type = "B"
        /\ delivered[j].seq = delivered[i].seq + 1


\* C21: over one emit, a handler subscribed with once is invoked at most once, it
\* is unsubscribed if it was invoked, and it is not unsubscribed unless it was
\* invoked (a step without emit, the host's off, is the explicit unsubscription).
Subscribers(onceOnly) ==
    UNION {{<<type, listeners[type][i].handler>> :
                i \in {k \in DOMAIN listeners[type] : onceOnly => listeners[type][k].once}} :
           type \in EventTypes}

InvokedSince(log, from, sub) ==
    Cardinality({k \in DOMAIN log :
                    k > from /\ log[k].type = sub[1] /\ log[k].handler = sub[2]})

OnceInvokedThenRemoved ==
    [][emitted' # emitted =>
          \A sub \in Subscribers(TRUE) :
              /\ InvokedSince(delivered', Len(delivered), sub) <= 1
              /\ sub \in Subscribers(FALSE)'
                    <=> InvokedSince(delivered', Len(delivered), sub) = 0]_vars

\* the DamageDealt events of the current update, in emission order
DamageEvents == SelectSeq(events, LAMBDA e : e.type = "DamageDealt")

\* C22: every DamageDealt event comes from an attack whose attacker carries
\* Combatant and Unit and is no leader, had health above 0 and unbroken morale
\* when it attacked, and whose victim was alive, had health above 0 before the
\* hit and is of another team than the attacker.
AttackLegality ==
    /\ Len(DamageEvents) = Len(attacks)
    /\ \A k \in DOMAIN attacks :
          /\ DamageEvents[k].attackerId = attacks[k].attackerId
          /\ DamageEvents[k].victimId = attacks[k].victimId
          /\ attacks[k].armed
          /\ ~attacks[k].attackerIsLeader
          /\ attacks[k].attackerHp > 0
          /\ ~attacks[k].attackerBroken
          /\ attacks[k].victimAlive
          /\ attacks[k].victimHp > 0
          /\ attacks[k].victimTeam # attacks[k].attackerTeam

\* two attacks in one update, the first of which brought its victim to health 0
\* or below, so that the second attacker met an entity that was already dead
KilledBeforeLaterAttack ==
    \E j, k \in DOMAIN attacks :
        /\ j < k
        /\ attacks[j].victimHp <= attacks[j].amount * HpScale
        /\ attacks[k].attackerId # attacks[j].attackerId

\* the least of the distances in a non-empty table of distances
Nearmost(dists) == CHOOSE d \in {dists[o] : o \in DOMAIN dists} :
                       \A o \in DOMAIN dists : d <= dists[o]

WarriorsInRange(ch) == {o \in DOMAIN ch.warriors : ch.warriors[o] <= ch.range}

\* C23: a combatant targets an enemy leader only when no live enemy warrior is
\* within its engagement range and that leader is within 70% of the range; when
\* a live enemy warrior is within engagement range, a nearest one is the target.
TargetPriority ==
    \A k \in DOMAIN choices :
        /\ choices[k].targetId \in DOMAIN choices[k].leaders =>
              /\ WarriorsInRange(choices[k]) = {}
              /\ 10 * choices[k].leaders[choices[k].targetId] <= 7 * choices[k].range
        /\ WarriorsInRange(choices[k]) # {} =>
              /\ choices[k].targetId \in WarriorsInRange(choices[k])
              /\ choices[k].warriors[choices[k].targetId] = Nearmost(choices[k].warriors)

\* a leader was chosen although a living enemy warrior, out of range, was nearer or
\* as near, and a warrior was chosen although an enemy leader was nearer
LeaderFallbackAndWarriorFirst ==
    /\ \E k \in DOMAIN choices : choices[k].targetId \in DOMAIN choices[k].leaders
    /\ \E k \in DOMAIN choices :
          /\ choices[k].targetId \in DOMAIN choices[k].warriors
          /\ \E l \in DOMAIN choices[k].leaders :
                choices[k].leaders[l] < choices[k].warriors[choices[k].targetId]

\* the attacker of attacks[k] had scored no charge hit within the CHARGE_COOLDOWN
\* ticks before it
NoRecentCharge(k) ==
    \/ attacks[k].lastCharge = <<>>
    \/ attacks[k].tick - attacks[k].lastCharge[1] > CHARGE_COOLDOWN

\* the damage of an attack of the given charged base damage
WithFlank(amount, flanking) == IF flanking THEN (amount * 3) \div 2 ELSE amount

DiedThisUpdate(e) == \E i \in EventsOf("UnitDied") : events[i].unitId = e

\* C24: the base damage of an attack is doubled exactly when its attacker has
\* scored no charge hit within the preceding CHARGE_COOLDOWN ticks (never having
\* scored one included), at any tick; a charge hit records the current tick
\* for the attacker.
ChargeBonus ==
    \A k \in DOMAIN attacks :
        /\ attacks[k].amount =
              WithFlank(IF NoRecentCharge(k) THEN 2 * attacks[k].base ELSE attacks[k].base,
                        attacks[k].flanking)
        /\ NoRecentCharge(k) /\ ~DiedThisUpdate(attacks[k].attackerId) =>
              /\ attacks[k].attackerId \in DOMAIN lastChargeHit
              /\ lastChargeHit[attacks[k].attackerId] = attacks[k].tick

\* how often the entity e was processed as dead, as a leader, and queued for removal
TimesDied(e) ==
    Cardinality({k \in DOMAIN deathLog : deathLog[k].type = "UnitDied" /\ deathLog[k].unitId = e})
TimesLeaderKilled(e) ==
    Cardinality({k \in DOMAIN deathLog :
                    deathLog[k].type = "LeaderKilled" /\ deathLog[k].leaderId = e})
TimesQueued(e) == Cardinality({k \in DOMAIN pendingDestroy : pendingDestroy[k] = e})

\* C25: over the whole run every entity is processed as dead at most once: at most
\* one UnitDied event, one destroy and, for a leader, one handleLeaderDeath call,
\* also when several attackers strike it in the same tick.
DeathProcessedOnce ==
    \A e \in 1..(nextEntityId - 1) :
        /\ TimesDied(e) <= 1
        /\ TimesLeaderKilled(e) <= 1
        /\ TimesDied(e) = 1 => TimesQueued(e) <= 1
        /\ TimesDied(e) = 1 /\ e \in alive => TimesQueued(e) = 1

\* an entity died in an update in which two attackers struck it
StruckTwiceAndDied ==
    \E j, k \in DOMAIN attacks :
        /\ j < k
        /\ attacks[j].victimId = attacks[k].victimId
        /\ attacks[j].attackerId # attacks[k].attackerId
        /\ DiedThisUpdate(attacks[k].victimId)

\* C26: the decision cooldown is monotone in aggression: of two controllers that
\* decide, the one of higher aggression is set a cooldown less than or equal to
\* that of the other.
CooldownMonotone ==
    \A j, k \in DOMAIN decisions :
        decisions[j].aggression > decisions[k].aggression =>
            decisions[j].cooldown <= decisions[k].cooldown

AIEdges ==
    {<<"idle", "farm">>, <<"idle", "hunt">>, <<"farm", "hunt">>,
     <<"hunt", "farm">>, <<"hunt", "retreat">>, <<"hunt", "flank">>, <<"hunt", "engage">>,
     <<"engage", "retreat">>, <<"engage", "hunt">>, <<"engage", "flank">>,
     <<"retreat", "farm">>, <<"retreat", "hunt">>, <<"flank", "engage">>}

\* C27: every state change of an AI controller follows an edge of the state
\* machine: idle to farm or hunt; farm to hunt; hunt to farm, retreat, flank or
\* engage; engage to retreat, hunt or flank; retreat to farm or hunt; flank to
\* engage; none re-enters idle.
AIFollowsEdges ==
    \A k \in DOMAIN decisions :
        decisions[k].to # decisions[k].from =>
            <<decisions[k].from, decisions[k].to>> \in AIEdges

\* C28: a death shard is never created at the exact death position, wherever in
\* the map the death is (the map bound included) and whatever is drawn.
DeathShardAwayFromDeath ==
    \A k \in DOMAIN shardDrops : shardDrops[k].at # shardDrops[k].from

\* the ShardCollected events that the step under way adds, all and those of leader l
NewlyCollected ==
    {i \in DOMAIN events' : i > Len(events) /\ events'[i].type = "ShardCollected"}
NewlyCollectedBy(l) == {i \in NewlyCollected : events'[i].collectorId = l}

\* C29: when a leader whose army is at MAX_ARMY_SIZE collects a shard, no warrior
\* is created and no WarriorJoined event is emitted for it, and still the shard is
\* destroyed, one respawn is queued per collection and ShardCollected is emitted.
CollectionAtCap ==
    [][pc = "shard" =>
          \A l \in DOMAIN leader :
              (GetArmySize(Sim, l) >= MAX_ARMY_SIZE
                  /\ \E s \in DOMAIN shard :
                        DistScale * Dist(transform[l].x, transform[s].x) < SHARD_PICKUP_RANGE) =>
                  /\ NewlyCollectedBy(l) # {}
                  /\ {m \in DOMAIN member' : member'[m].leaderId = l} = ArmyOf(Sim, l)
                  /\ \A i \in DOMAIN events' :
                        i > Len(events) /\ events'[i].type = "WarriorJoined" =>
                            events'[i].leaderId # l
                  /\ \A i \in NewlyCollectedBy(l) :
                        events'[i].shardId \in Range(pendingDestroy')
                  /\ Len(pendingRespawns') + Cardinality({i \in DOMAIN pendingRespawns :
                                                            pendingRespawns[i].timer <= 1})
                        = Len(pendingRespawns) + Cardinality(NewlyCollected)]_vars

\* a leader with a full army has collected a shard in this update
CollectedAtCap ==
    /\ pc = "combat"
    /\ \E i \in EventsOf("ShardCollected") :
          /\ GetArmySize(Sim, events[i].collectorId) = MAX_ARMY_SIZE
          /\ \A j \in EventsOf("WarriorJoined") : events[j].leaderId # events[i].collectorId

FormationSlotsUnique ==
    \A m1, m2 \in DOMAIN member :
        (m1 # m2 /\ member[m1].leaderId # 0 /\ member[m1].leaderId = member[m2].leaderId) =>
            member[m1].indexInFormation # member[m2].indexInFormation

\* C33: a shard collected in tick T is recreated in tick T + SHARD_RESPAWN_TICKS.  A
\* queued respawn whose timer is k when a tick's ShardSystem has run is created k
\* ticks later, so once the collecting tick's ShardSystem has run each respawn
\* queued in that tick still has SHARD_RESPAWN_TICKS ticks to wait.
RespawnAfterFullDelay ==
    (pc \in {"combat", "ai", "crown", "flush"} /\ EventsOf("ShardCollected") # {}) =>
        /\ Len(pendingRespawns) >= Cardinality(EventsOf("ShardCollected"))
        /\ \A i \in DOMAIN pendingRespawns :
               i > Len(pendingRespawns) - Cardinality(EventsOf("ShardCollected")) =>
                   pendingRespawns[i].timer = SHARD_RESPAWN_TICKS

StateChangeResetsTimer ==
    \A k \in DOMAIN decisions :
        decisions[k].to # decisions[k].from => decisions[k].after = 0

\* C36: at the end of every tick every leader and every warband member lies
\* inside the map bounds, |x| <= MAP_SIZE/2 - 2, scattering members and newly
\* spawned warriors included.
UnitsInsideMap ==
    pc = "idle" =>
        \A id \in (DOMAIN leader \cup DOMAIN member) \cap DOMAIN transform :
            Abs(transform[id].x) <= MapHalf

\* C37: the bus recovers from a failing handler: once the emit that met the
\* throwing handler has returned, the bus is not in its processing state (the
\* state in which emit only queues and nothing is delivered).
BusLeavesProcessing == ~processing

\* the deliveries made by the step
NewlyDelivered == {k \in DOMAIN delivered' : k > Len(delivered)}

\* C38: unsubscribing removes only the targeted subscription: over one emit in
\* which a handler calls off on itself or a once-handler is removed, every other
\* handler subscribed to the type of a delivered event is invoked for that event,
\* and no other lasting subscription is lost.
OffRemovesOnlyTarget ==
    [][emitted' # emitted =>
          \A sub \in Subscribers(FALSE) :
              sub[2] # "quit" =>
                  /\ \A k \in NewlyDelivered :
                         delivered'[k].type = sub[1] =>
                             \E j \in NewlyDelivered :
                                 /\ delivered'[j].seq = delivered'[k].seq
                                 /\ delivered'[j].handler = sub[2]
                  /\ sub \notin Subscribers(TRUE) => sub \in Subscribers(FALSE)']_vars

\* C39: every crown is picked up at most once, although it stays in the stores
\* until the end of the tick, each pickup comes with one ArmyAbsorbed event, and
\* the leader that picks a crown up is of another team than the crown's
\* originalTeamId.
CrownPickedUpOnce ==
    /\ \A i, j \in DOMAIN crownLog : i # j => crownLog[i].crownId # crownLog[j].crownId
    /\ \A i \in DOMAIN crownLog : crownLog[i].collectorTeam # crownLog[i].originalTeamId
    /\ Cardinality(EventsOf("ArmyAbsorbed")) = Cardinality(EventsOf("CrownPickedUp"))

\* a leader has picked a crown up and has stayed where the crown lay through a
\* whole later update
StayedOnPickedCrown ==
    /\ pc = "idle"
    /\ \E k \in DOMAIN crownLog :
          /\ crownLog[k].tick < tick
          /\ crownLog[k].collectorId \in DOMAIN leader
          /\ DistScale * Dist(transform[crownLog[k].collectorId].x, crownLog[k].at)
                 < CROWN_PICKUP_RANGE

====
